---- MODULE Spec2Model ----
(***************************************************************************)
(* SmartCatalog: the tolerance-aware matcher (matcher/excel_matcher.py)    *)
(* and the code-anchor detector (loader/extract_item.py).                  *)
(*                                                                         *)
(* Numbers.  A Python float is modelled as an integer count of millionths  *)
(* (One = 1.0).  Every dimension value fed to the model is a multiple of   *)
(* TolDen millionths, so 5% of it (v / TolDen) is an exact integer and     *)
(* every comparison below is the exact real comparison of the code; eps    *)
(* (1e-6) is one unit.  Binary rounding of the floats (about 1e-16         *)
(* relative) is far below one unit and is not modelled.                    *)
(*                                                                         *)
(* Text.  A Python str is a sequence of one-character strings.             *)
(* None.  An optional value is a sequence of length 0 (None) or 1.         *)
(***************************************************************************)
EXTENDS Integers, Sequences, FiniteSets, TLC

VARIABLES
    call,             \* a pure function under test: its arguments and its return value
    catalog_records,  \* match_word_items_to_excel_catalog: the (index, row) records
    word_items,       \* ... its word_items argument
    top_k,            \* ... its top_k argument
    item_no,          \* ... number of word_items the for loop has consumed
    dim_cache,        \* ... the local dim_cache
    candidates,       \* ... the local candidates, as the last iteration left it
    results,          \* ... the local results list
    db,               \* the SQLite file: its tables as committed, and who holds the write lock
    conns             \* the threads that use the file, each on its own connection

callVars == <<call>>
matchVars == <<catalog_records, word_items, top_k, item_no, dim_cache, candidates, results>>
dbVars == <<db, conns>>
vars == <<call, catalog_records, word_items, top_k, item_no, dim_cache, candidates, results, db, conns>>

\* the file after _ensure_schema: the four tables, empty; an id is a row's place
\* in its table
EmptyDb == [items |-> <<>>, item_images |-> <<>>, assets |-> <<>>, links |-> {}, writer |-> 0]

NoDbState == db = EmptyDb /\ conns = <<>>

\* ------------------------------------------------------------------------
\* Numbers
\* ------------------------------------------------------------------------
One == 1000000
TolDen == 20
Eps == 1

Abs(x) == IF x < 0 THEN -x ELSE x
Min2(a, b) == IF a <= b THEN a ELSE b
Max2(a, b) == IF a >= b THEN a ELSE b

\* tol_pct * v, v * (1.0 - tol_pct), v * (1.0 + tol_pct)
TolOf(v) == v \div TolDen
Shrunk(v) == v - TolOf(v)
Grown(v) == v + TolOf(v)

Range(s) == {s[i] : i \in 1..Len(s)}

SeqsUpTo(S, n) == UNION {[1..k -> S] : k \in 0..n}

\* ------------------------------------------------------------------------
\* Text: characters are one-character strings; "e'" stands for U+00E9 (e acute),
\* "E'" for U+00C9, "o/" for U+00F8 (the diameter sign as typed in catalogs) and
\* "O/" for U+00D8.
\* ------------------------------------------------------------------------
DigitChars == <<"0", "1", "2", "3", "4", "5", "6", "7", "8", "9">>
LowerChars == <<"a", "b", "c", "d", "e", "f", "g", "h", "i", "j", "k", "l", "m",
                "n", "o", "p", "q", "r", "s", "t", "u", "v", "w", "x", "y", "z", "e'">>
UpperChars == <<"A", "B", "C", "D", "E", "F", "G", "H", "I", "J", "K", "L", "M",
                "N", "O", "P", "Q", "R", "S", "T", "U", "V", "W", "X", "Y", "Z", "E'">>
AsciiLower == {LowerChars[i] : i \in 1..26}
Digits == Range(DigitChars)
SpaceChars == {" "}
\* \w of the re module: letters, digits and the underscore
WordChars == Range(LowerChars) \cup Range(UpperChars) \cup Digits \cup {"o/", "O/", "_"}

DigitVal(c) == (CHOOSE i \in 1..10 : DigitChars[i] = c) - 1

\* str.lower() of one character
LowerChar(c) ==
    IF c = "O/" THEN "o/"
    ELSE IF \E i \in 1..Len(UpperChars) : UpperChars[i] = c
    THEN LowerChars[CHOOSE i \in 1..Len(UpperChars) : UpperChars[i] = c]
    ELSE c

lower(t) == [i \in 1..Len(t) |-> LowerChar(t[i])]

\* t[i:j] with 1-based i and exclusive j
Slice(t, i, j) == [k \in 1..(j - i) |-> t[i + k - 1]]

\* whether the characters of w stand in t from position i on
StartsAt(t, i, w) ==
    /\ i + Len(w) - 1 <= Len(t)
    /\ \A k \in 1..Len(w) : t[i + k - 1] = w[k]

\* `w in t` of two strings
Contains(t, w) == \E i \in 1..(Len(t) - Len(w) + 1) : StartsAt(t, i, w)

\* first position from i on whose character is not in S (Len(t) + 1 when none):
\* the end of a greedy S* starting at i
SkipWhile(t, i, S) ==
    CHOOSE j \in i..(Len(t) + 1) :
        /\ \A k \in i..(j - 1) : t[k] \in S
        /\ j = Len(t) + 1 \/ t[j] \notin S

RECURSIVE Pow10(_)
Pow10(n) == IF n = 0 THEN 1 ELSE 10 * Pow10(n - 1)

RECURSIVE IntOfDigits(_)
IntOfDigits(ds) ==
    IF ds = <<>> THEN 0
    ELSE 10 * IntOfDigits(Slice(ds, 1, Len(ds))) + DigitVal(ds[Len(ds)])

\* ------------------------------------------------------------------------
\* parse_dimensions_with_units: the four regular expressions, matched as the re
\* module matches them (leftmost match, greedy quantifiers, the alternatives of
\* a group tried in the order written)
\* ------------------------------------------------------------------------
Txt_mm == <<"m", "m">>
Txt_cm == <<"c", "m">>
Txt_m == <<"m">>
Txt_ml == <<"m", "l">>
Txt_l == <<"l">>

\* (mm|cm|m|ml|l) of the number and range patterns, (mm|cm|m) of the diameter ones
UnitAlts_LongestFirst == <<Txt_mm, Txt_cm, Txt_ml, Txt_m, Txt_l>>

UnitAlts == <<Txt_mm, Txt_cm, Txt_m, Txt_ml, Txt_l>>

DiaUnitAlts == <<Txt_mm, Txt_cm, Txt_m>>

\* end of \d+(?:\.\d+)? matched at the digit t[i]
NumberEnd(t, i) ==
    LET j == SkipWhile(t, i, Digits)
    IN  IF j + 1 <= Len(t) /\ t[j] = "." /\ t[j + 1] \in Digits
        THEN SkipWhile(t, j + 1, Digits)
        ELSE j

\* float(group) of a group matched by \d+(?:\.\d+)?, in millionths
FloatOf(g) ==
    LET d == SkipWhile(g, 1, Digits)
        frac == Slice(g, d + 1, Len(g) + 1)
    IN  IntOfDigits(Slice(g, 1, d)) * One
          + (IF d > Len(g) THEN 0 ELSE IntOfDigits(frac) * Pow10(6 - Len(frac)))

\* (alt1|alt2|...)? at position i: the first alternative that matches, else ""
MatchUnit(t, i, alts) ==
    LET hits == {k \in 1..Len(alts) : StartsAt(t, i, alts[k])}
    IN  IF hits = {} THEN <<>>
        ELSE alts[CHOOSE k \in hits : \A h \in hits : k <= h]

\* re.finditer(r"(\d+(?:\.\d+)?)\s*(mm|cm|m|ml|l)?", t) from position i on
RECURSIVE FindNumbers(_, _)
FindNumbers(t, i) ==
    IF i > Len(t) THEN <<>>
    ELSE IF t[i] \notin Digits THEN FindNumbers(t, i + 1)
    ELSE LET e == NumberEnd(t, i)
             u == SkipWhile(t, e, SpaceChars)
             unit == MatchUnit(t, u, UnitAlts)
         IN  <<[val |-> FloatOf(Slice(t, i, e)), unit |-> unit]>>
                 \o FindNumbers(t, u + Len(unit))

\* (\d+(?:\.\d+)?)\s*-\s*(\d+(?:\.\d+)?)\s*(unit)? tried at the digit t[i]:
\* <<>> when it does not match there, else <<[a, b, unit, end]>>
RangeAt(t, i, alts) ==
    LET e1 == NumberEnd(t, i)
        h == SkipWhile(t, e1, SpaceChars)
    IN  IF ~(h <= Len(t) /\ t[h] = "-") THEN <<>>
        ELSE LET b == SkipWhile(t, h + 1, SpaceChars)
             IN  IF ~(b <= Len(t) /\ t[b] \in Digits) THEN <<>>
                 ELSE LET e2 == NumberEnd(t, b)
                          u == SkipWhile(t, e2, SpaceChars)
                          unit == MatchUnit(t, u, alts)
                      IN  <<[a |-> FloatOf(Slice(t, i, e1)),
                             b |-> FloatOf(Slice(t, b, e2)),
                             unit |-> unit, end |-> u + Len(unit)]>>

RECURSIVE FindRanges(_, _)
FindRanges(t, i) ==
    IF i > Len(t) THEN <<>>
    ELSE IF t[i] \notin Digits THEN FindRanges(t, i + 1)
    ELSE LET m == RangeAt(t, i, UnitAlts)
         IN  IF m = <<>> THEN FindRanges(t, i + 1)
             ELSE <<[a |-> m[1].a, b |-> m[1].b, unit |-> m[1].unit]>>
                      \o FindRanges(t, m[1].end)

\* (?:\b(?:o/|phi)\s*|\bdiam(?:eter)?[:\s]*)\s* tried at position i: the position
\* after it, 0 when it does not match there
DiaPrefixEnd(t, i) ==
    IF ~(i = 1 \/ t[i - 1] \notin WordChars) THEN 0
    ELSE IF StartsAt(t, i, <<"o/">>) THEN SkipWhile(t, i + 1, SpaceChars)
    ELSE IF StartsAt(t, i, <<"p", "h", "i">>) THEN SkipWhile(t, i + 3, SpaceChars)
    ELSE IF StartsAt(t, i, <<"d", "i", "a", "m">>)
         THEN LET e == IF StartsAt(t, i + 4, <<"e", "t", "e", "r">>) THEN i + 8 ELSE i + 4
              IN  SkipWhile(t, e, SpaceChars \cup {":"})
    ELSE 0

\* DIA_SINGLE_RX.finditer(t) from position i on
RECURSIVE FindDiaNumbers(_, _)
FindDiaNumbers(t, i) ==
    IF i > Len(t) THEN <<>>
    ELSE LET p == DiaPrefixEnd(t, i)
         IN  IF ~(p > 0 /\ p <= Len(t) /\ t[p] \in Digits) THEN FindDiaNumbers(t, i + 1)
             ELSE LET e == NumberEnd(t, p)
                      u == SkipWhile(t, e, SpaceChars)
                      unit == MatchUnit(t, u, DiaUnitAlts)
                  IN  <<[val |-> FloatOf(Slice(t, p, e)), unit |-> unit]>>
                          \o FindDiaNumbers(t, u + Len(unit))

\* DIA_RANGE_RX.match(t, i): the range that follows a prefix ending before p
DiaRangeAt(t, p) ==
    IF p > 0 /\ p <= Len(t) /\ t[p] \in Digits THEN RangeAt(t, p, DiaUnitAlts) ELSE <<>>

\* DIA_RANGE_RX.finditer(t) from position i on; m is the match tried at i
RECURSIVE FindDiaRanges(_, _)
DiaRangesFrom(t, i, m) ==
    IF m = <<>> THEN FindDiaRanges(t, i + 1)
    ELSE <<[a |-> m[1].a, b |-> m[1].b, unit |-> m[1].unit]>> \o FindDiaRanges(t, m[1].end)

FindDiaRanges(t, i) ==
    IF i > Len(t) THEN <<>> ELSE DiaRangesFrom(t, i, DiaRangeAt(t, DiaPrefixEnd(t, i)))

parse_dimensions_with_units(text) ==
    LET t == lower(text)
    IN  [numbers |-> FindNumbers(t, 1),
         ranges |-> FindRanges(t, 1),
         diameter_numbers |-> FindDiaNumbers(t, 1),
         diameter_ranges |-> FindDiaRanges(t, 1)]

\* Optional[float]: <<>> is None
convert_unit_value(val, unit, target) ==
    IF target = "mm" THEN
        IF unit \in {<<>>, Txt_mm} THEN <<val>>
        ELSE IF unit = Txt_cm THEN <<val * 10>>
        ELSE IF unit = Txt_m THEN <<val * 1000>>
        ELSE <<>>
    ELSE IF target = "ml" THEN
        IF unit \in {<<>>, Txt_ml} THEN <<val>>
        ELSE IF unit = Txt_l THEN <<val * 1000>>
        ELSE <<>>
    ELSE <<>>

\* ------------------------------------------------------------------------
\* Scores: a float in [0, 1] is an exact fraction [n, d] in lowest terms
\* ------------------------------------------------------------------------
RECURSIVE GCD(_, _)
GCD(a, b) == IF b = 0 THEN a ELSE GCD(b, a % b)

Rat(n, d) == LET g == GCD(Abs(n), d) IN [n |-> n \div g, d |-> d \div g]
RZero == [n |-> 0, d |-> 1]
ROne == [n |-> 1, d |-> 1]
RAdd(p, q) == Rat(p.n * q.d + q.n * p.d, p.d * q.d)
RTimes(k, p) == Rat(k * p.n, p.d)
ROver(p, k) == Rat(p.n, p.d * k)
RLess(p, q) == p.n * q.d < q.n * p.d
RMax(p, q) == IF RLess(p, q) THEN q ELSE p

\* ------------------------------------------------------------------------
\* Tokens and difflib.SequenceMatcher(None, a, b).ratio()
\* ------------------------------------------------------------------------
\* the maximal runs of characters c with (c \in S) = inside, from position i on
RECURSIVE Runs(_, _, _, _)
Runs(t, i, S, inside) ==
    IF i > Len(t) THEN <<>>
    ELSE IF (t[i] \in S) # inside THEN Runs(t, i + 1, S, inside)
    ELSE LET e == IF inside THEN SkipWhile(t, i, S)
                  ELSE CHOOSE j \in i..(Len(t) + 1) :
                         /\ \A k \in i..(j - 1) : t[k] \notin S
                         /\ j = Len(t) + 1 \/ t[j] \in S
         IN  <<Slice(t, i, e)>> \o Runs(t, e, S, inside)

\* [t for t in re.split(r"[^a-z0-9\-\+]+", s.lower()) if t]
tokenize_simple_KeepsSymbols(s) ==
    Runs(lower(s), 1, AsciiLower \cup Digits \cup {"-", "+", "*"}, TRUE)

tokenize_simple(s) == Runs(lower(s), 1, AsciiLower \cup Digits \cup {"-", "+"}, TRUE)

\* str.split()
split(s) == Runs(s, 1, SpaceChars, FALSE)

\* " ".join(parts)
RECURSIVE join(_)
join(parts) ==
    IF parts = <<>> THEN <<>>
    ELSE IF Len(parts) = 1 THEN parts[1]
    ELSE parts[1] \o <<" ">> \o join(Tail(parts))

\* length of the longest common run of a from i and b from j, inside [.., ahi) x [.., bhi)
CommonLen(a, b, i, j, ahi, bhi) ==
    CHOOSE k \in 0..Min2(ahi - i, bhi - j) :
        /\ \A d \in 0..(k - 1) : a[i + d] = b[j + d]
        /\ k = Min2(ahi - i, bhi - j) \/ a[i + k] # b[j + k]

\* find_longest_match: the longest block, the earliest in a, then the earliest in b
LongestMatch(a, b, alo, ahi, blo, bhi) ==
    LET blocks == {[i |-> i, j |-> j, size |-> CommonLen(a, b, i, j, ahi, bhi)] :
                      i \in alo..(ahi - 1), j \in blo..(bhi - 1)}
        Better(p, q) == \/ p.size > q.size
                        \/ p.size = q.size /\ p.i < q.i
                        \/ p.size = q.size /\ p.i = q.i /\ p.j <= q.j
    IN  IF blocks = {} THEN [i |-> alo, j |-> blo, size |-> 0]
        ELSE CHOOSE p \in blocks : \A q \in blocks : Better(p, q)

\* sum of the sizes of get_matching_blocks()
RECURSIVE MatchedChars(_, _, _, _, _, _)
MatchedChars(a, b, alo, ahi, blo, bhi) ==
    LET m == LongestMatch(a, b, alo, ahi, blo, bhi)
    IN  IF m.size = 0 THEN 0
        ELSE m.size + MatchedChars(a, b, alo, m.i, blo, m.j)
                    + MatchedChars(a, b, m.i + m.size, ahi, m.j + m.size, bhi)

ratio(a, b) ==
    IF Len(a) + Len(b) = 0 THEN ROne
    ELSE Rat(2 * MatchedChars(a, b, 1, Len(a) + 1, 1, Len(b) + 1), Len(a) + Len(b))

RECURSIVE RMaxOf(_)
RMaxOf(rs) == IF Len(rs) = 1 THEN rs[1] ELSE RMax(rs[1], RMaxOf(Tail(rs)))

RECURSIVE RSum(_)
RSum(rs) == IF rs = <<>> THEN RZero ELSE RAdd(rs[1], RSum(Tail(rs)))

TokenScore(t, blob, words) ==
    IF Contains(blob, t) THEN ROne
    ELSE RMaxOf([k \in 1..Len(words) |-> ratio(t, words[k])])

best_token_match_ratio(token, blob) ==
    IF token = <<>> \/ blob = <<>> THEN RZero
    ELSE IF Contains(blob, token) THEN ROne
    ELSE IF split(blob) = <<>> THEN RZero
    ELSE TokenScore(token, blob, split(blob))

average_token_match_ratio(tokens, blob) ==
    IF tokens = <<>> \/ blob = <<>> THEN RZero
    ELSE IF split(blob) = <<>> THEN RZero
    ELSE ROver(RSum([k \in 1..Len(tokens) |-> TokenScore(tokens[k], blob, split(blob))]),
               Len(tokens))

\* ------------------------------------------------------------------------
\* Numeric scores
\* ------------------------------------------------------------------------
RECURSIVE Flatten(_)
Flatten(ss) == IF ss = <<>> THEN <<>> ELSE ss[1] \o Flatten(Tail(ss))

MinOf(S) == CHOOSE x \in S : \A y \in S : x <= y

proximity_decay_score(v, xs) ==
    IF xs = <<>> THEN RZero
    ELSE LET nearest == MinOf({Abs(xs[i] - v) : i \in 1..Len(xs)})
             delta == Max2(One, TolOf(Max2(One, v)))
         IN  Rat(Max2(0, delta - nearest), delta)

\* variant: the overlap alone, without the edge proximity
range_overlap_or_edge_score_OverlapOnly(target, ranges, singles) ==
    LET lo == Min2(target[1], target[2])
        hi == Max2(target[1], target[2])
        iou(r) == LET inter == Max2(0, Min2(hi, r[2]) - Max2(lo, r[1]))
                      union == Max2(hi, r[2]) - Min2(lo, r[1])
                  IN  IF union > 0 THEN Rat(inter, union) ELSE RZero
    IN  RMaxOf(<<RZero>> \o [i \in 1..Len(ranges) |-> iou(ranges[i])])

range_overlap_or_edge_score(target, ranges, singles) ==
    LET lo == Min2(target[1], target[2])
        hi == Max2(target[1], target[2])
        iou(r) == LET inter == Max2(0, Min2(hi, r[2]) - Max2(lo, r[1]))
                      union == Max2(hi, r[2]) - Min2(lo, r[1])
                  IN  IF union > 0 THEN Rat(inter, union) ELSE RZero
        best_iou == RMaxOf(<<RZero>> \o [i \in 1..Len(ranges) |-> iou(ranges[i])])
        points == singles \o Flatten([i \in 1..Len(ranges) |-> <<ranges[i][1], ranges[i][2]>>])
        d_to_interval(x) == IF x < lo THEN lo - x ELSE IF x > hi THEN x - hi ELSE 0
        nearest == MinOf({d_to_interval(points[i]) : i \in 1..Len(points)})
        delta == Max2(One, TolOf(Max2(One, hi - lo)))
    IN  IF \E i \in 1..Len(singles) : lo <= singles[i] /\ singles[i] <= hi THEN ROne
        ELSE IF points # <<>> THEN RMax(best_iou, Rat(Max2(0, delta - nearest), delta))
        ELSE best_iou

\* the values of one unit class: [convert(v, u, target) for (v, u) in numbers if not None]
SinglesOf(numbers, target) ==
    Flatten([i \in 1..Len(numbers) |-> convert_unit_value(numbers[i].val, numbers[i].unit, target)])

\* the (lo, hi) pairs of one unit class
RangesOf(ranges, target) ==
    Flatten([i \in 1..Len(ranges) |->
        LET lo == convert_unit_value(Min2(ranges[i].a, ranges[i].b), ranges[i].unit, target)
            hi == convert_unit_value(Max2(ranges[i].a, ranges[i].b), ranges[i].unit, target)
        IN  IF lo # <<>> /\ hi # <<>> THEN <<<<lo[1], hi[1]>>>> ELSE <<>>])

\* ------------------------------------------------------------------------
\* Scoring
\* ------------------------------------------------------------------------
\* the default weights, times ten
weights == [brand |-> 20, shape |-> 14, type |-> 20, code |-> 25,
            length |-> 16, height |-> 16, diameter |-> 16, capacity |-> 16]

\* x or y of two strings
OrElse(x, y) == IF x # <<>> THEN x ELSE y

extract_item_search_features(item) ==
    [brand_tokens |-> tokenize_simple(item.brand),
     shape_tokens |-> tokenize_simple(item.shape),
     type_tokens |-> tokenize_simple(OrElse(item.type, item.item_type)),
     code |-> OrElse(item.code, item.item_code),
     nums |-> [length_mm |-> item.length_mm, width_mm |-> item.width_mm,
               height_mm |-> item.height_mm, diameter_mm |-> item.diameter_mm,
               capacity_ml |-> item.capacity_ml,
               height_min_mm |-> item.height_min_mm, height_max_mm |-> item.height_max_mm,
               capacity_min_ml |-> item.capacity_min_ml,
               capacity_max_ml |-> item.capacity_max_ml]]

\* variant: 1.0 for a value within the 5% tolerance of a single
SingleValueScore_Tolerant(v, xs) ==
    RMax(IF \E i \in 1..Len(xs) : Abs(xs[i] - v) <= TolOf(Max2(Max2(v, xs[i]), One)) + Eps
         THEN ROne ELSE RZero,
         proximity_decay_score(v, xs))

\* max(1.0 if any(abs(x - v) < 1e-6 for x in xs) else 0.0, proximity_decay_score(v, xs))
SingleValueScore(v, xs) ==
    RMax(IF \E i \in 1..Len(xs) : Abs(xs[i] - v) < Eps THEN ROne ELSE RZero,
         proximity_decay_score(v, xs))

\* the (weight, field score) pairs the function accumulates into score and max_score
FieldScores(row, features, w, parsed) ==
    LET blob_brand == lower(join(<<row.brand, row.type>>))
        blob_desc == lower(join(<<row.code, row.brand, row.type, row.dimensions>>))
        mm_singles == SinglesOf(parsed.numbers, "mm")
        ml_singles == SinglesOf(parsed.numbers, "ml")
        mm_ranges == RangesOf(parsed.ranges, "mm")
        ml_ranges == RangesOf(parsed.ranges, "ml")
        n == features.nums
    IN  (IF features.brand_tokens # <<>>
         THEN <<[weight |-> w.brand, s |-> average_token_match_ratio(features.brand_tokens, blob_brand)]>>
         ELSE <<>>)
     \o (IF features.shape_tokens # <<>>
         THEN <<[weight |-> w.shape, s |-> average_token_match_ratio(features.shape_tokens, blob_desc)]>>
         ELSE <<>>)
     \o (IF features.type_tokens # <<>>
         THEN <<[weight |-> w.type, s |-> average_token_match_ratio(features.type_tokens, blob_desc)]>>
         ELSE <<>>)
     \o (IF features.code # <<>>
         THEN <<[weight |-> w.code, s |-> best_token_match_ratio(lower(features.code), blob_desc)]>>
         ELSE <<>>)
     \o (IF n.length_mm # <<>>
         THEN <<[weight |-> w.length, s |-> SingleValueScore(n.length_mm[1], mm_singles)]>>
         ELSE <<>>)
     \o (IF n.height_min_mm # <<>> /\ n.height_max_mm # <<>>
         THEN <<[weight |-> w.height, s |-> range_overlap_or_edge_score(
                     <<n.height_min_mm[1], n.height_max_mm[1]>>, mm_ranges, mm_singles)]>>
         ELSE IF n.height_mm # <<>>
         THEN <<[weight |-> w.height, s |-> SingleValueScore(n.height_mm[1], mm_singles)]>>
         ELSE <<>>)
     \o (IF n.diameter_mm # <<>>
         THEN <<[weight |-> w.diameter, s |-> SingleValueScore(n.diameter_mm[1], mm_singles)]>>
         ELSE <<>>)
     \o (IF n.capacity_min_ml # <<>> /\ n.capacity_max_ml # <<>>
         THEN <<[weight |-> w.capacity, s |-> range_overlap_or_edge_score(
                     <<n.capacity_min_ml[1], n.capacity_max_ml[1]>>, ml_ranges, ml_singles)]>>
         ELSE IF n.capacity_ml # <<>>
         THEN <<[weight |-> w.capacity, s |-> SingleValueScore(n.capacity_ml[1], ml_singles)]>>
         ELSE <<>>)

ScoreTerms(row, features, w) ==
    FieldScores(row, features, w, parse_dimensions_with_units(row.dimensions))

RECURSIVE SumWeights(_)
SumWeights(terms) == IF terms = <<>> THEN 0 ELSE terms[1].weight + SumWeights(Tail(terms))

\* score / max_score, or 0.0 when no field contributed
WeightedAverage(terms) ==
    LET score == RSum([i \in 1..Len(terms) |-> RTimes(terms[i].weight, terms[i].s)])
        max_score == SumWeights(terms)
    IN  IF max_score <= 0 THEN RZero ELSE ROver(score, max_score)

score_catalog_row_against_item_Unnormalised(row, features, w) ==
    LET terms == ScoreTerms(row, features, w)
    IN  ROver(RSum([i \in 1..Len(terms) |-> RTimes(terms[i].weight, terms[i].s)]), 10)

score_catalog_row_against_item(row, features, w) ==
    WeightedAverage(ScoreTerms(row, features, w))

\* ------------------------------------------------------------------------
\* Strict filter helpers
\* ------------------------------------------------------------------------
\* variants of value_matches_singles_or_ranges: a row with no value at all
\* matches; the ranges are not looked at
value_matches_singles_or_ranges_MissingPasses(v, singles, ranges) ==
    \/ singles = <<>> /\ ranges = <<>>
    \/ \E i \in 1..Len(singles) :
          Abs(singles[i] - v) <= TolOf(Max2(Max2(v, singles[i]), One)) + Eps
    \/ \E i \in 1..Len(ranges) :
          /\ Shrunk(ranges[i][1]) - Eps <= v
          /\ v <= Grown(ranges[i][2]) + Eps

value_matches_singles_or_ranges_SinglesOnly(v, singles, ranges) ==
    \E i \in 1..Len(singles) :
        Abs(singles[i] - v) <= TolOf(Max2(Max2(v, singles[i]), One)) + Eps

value_matches_singles_or_ranges(v, singles, ranges) ==
    \/ \E i \in 1..Len(singles) :
          Abs(singles[i] - v) <= TolOf(Max2(Max2(v, singles[i]), One)) + Eps
    \/ \E i \in 1..Len(ranges) :
          /\ Shrunk(ranges[i][1]) - Eps <= v
          /\ v <= Grown(ranges[i][2]) + Eps

\* variant: a range that overlaps the query range is enough
range_fully_contained_Overlaps(lo0, hi0, ranges) ==
    \E i \in 1..Len(ranges) :
        /\ ranges[i][1] <= Max2(lo0, hi0)
        /\ Min2(lo0, hi0) <= ranges[i][2]

range_fully_contained(lo0, hi0, ranges) ==
    LET lo == Min2(lo0, hi0)
        hi == Max2(lo0, hi0)
    IN  \E i \in 1..Len(ranges) :
          /\ Shrunk(ranges[i][1]) - Eps <= lo
          /\ hi <= Grown(ranges[i][2]) + Eps

\* thresh of the '<=' and '<' branches, and of the '>=' and '>' branches
ThreshLe_NoTolerance(v) == v

ThreshLe(v) == Grown(v)

ThreshGe_SignSlip(v) == Grown(v)

ThreshGe(v) == Shrunk(v)

\* variant: '>=' and '>' read the lower end of a range, '<=' and '<' the upper
satisfies_dimension_constraint_WrongEndpoint(v, op0, singles, ranges) ==
    LET op == IF op0 = "" THEN "=" ELSE op0
    IN  CASE op = ">=" ->
               \/ \E i \in 1..Len(singles) : singles[i] >= ThreshGe(v) - Eps
               \/ \E i \in 1..Len(ranges) : ranges[i][1] >= ThreshGe(v) - Eps
          [] op = "<=" ->
               \/ \E i \in 1..Len(singles) : singles[i] <= ThreshLe(v) + Eps
               \/ \E i \in 1..Len(ranges) : ranges[i][2] <= ThreshLe(v) + Eps
          [] op = ">" ->
               \/ \E i \in 1..Len(singles) : singles[i] > ThreshGe(v) + Eps
               \/ \E i \in 1..Len(ranges) : ranges[i][1] > ThreshGe(v) + Eps
          [] op = "<" ->
               \/ \E i \in 1..Len(singles) : singles[i] < ThreshLe(v) - Eps
               \/ \E i \in 1..Len(ranges) : ranges[i][2] < ThreshLe(v) - Eps
          [] OTHER ->
               value_matches_singles_or_ranges(v, singles, ranges)

\* op is a string; the op None is written "".

satisfies_dimension_constraint(v, op0, singles, ranges) ==
    LET op == IF op0 = "" THEN "=" ELSE op0
    IN  CASE op \in {"=", "=="} ->
               value_matches_singles_or_ranges(v, singles, ranges)
          [] op = ">=" ->
               \/ \E i \in 1..Len(singles) : singles[i] >= ThreshGe(v) - Eps
               \/ \E i \in 1..Len(ranges) : ranges[i][2] >= ThreshGe(v) - Eps
          [] op = "<=" ->
               \/ \E i \in 1..Len(singles) : singles[i] <= ThreshLe(v) + Eps
               \/ \E i \in 1..Len(ranges) : ranges[i][1] <= ThreshLe(v) + Eps
          [] op = ">" ->
               \/ \E i \in 1..Len(singles) : singles[i] > ThreshGe(v) + Eps
               \/ \E i \in 1..Len(ranges) : ranges[i][2] > ThreshGe(v) + Eps
          [] op = "<" ->
               \/ \E i \in 1..Len(singles) : singles[i] < ThreshLe(v) - Eps
               \/ \E i \in 1..Len(ranges) : ranges[i][1] < ThreshLe(v) - Eps
          [] OTHER ->
               value_matches_singles_or_ranges(v, singles, ranges)

row_satisfies_required_dimensions(item, dims) ==
    /\ item.length_mm # <<>> =>
          satisfies_dimension_constraint(item.length_mm[1], item.length_op,
                                         dims.mm_singles, dims.mm_ranges)
    /\ item.width_mm # <<>> =>
          satisfies_dimension_constraint(item.width_mm[1], item.width_op,
                                         dims.mm_singles, dims.mm_ranges)
    /\ IF item.height_min_mm # <<>> /\ item.height_max_mm # <<>>
       THEN \/ range_fully_contained(item.height_min_mm[1], item.height_max_mm[1], dims.mm_ranges)
            \/ /\ value_matches_singles_or_ranges(item.height_min_mm[1], dims.mm_singles, dims.mm_ranges)
               /\ value_matches_singles_or_ranges(item.height_max_mm[1], dims.mm_singles, dims.mm_ranges)
       ELSE item.height_mm # <<>> =>
               satisfies_dimension_constraint(item.height_mm[1], item.height_op,
                                              dims.mm_singles, dims.mm_ranges)
    /\ item.diameter_mm # <<>> =>
          satisfies_dimension_constraint(item.diameter_mm[1], item.diameter_op,
                                         dims.dia_singles, dims.dia_ranges)
    /\ IF item.capacity_min_ml # <<>> /\ item.capacity_max_ml # <<>>
       THEN \/ range_fully_contained(item.capacity_min_ml[1], item.capacity_max_ml[1], dims.ml_ranges)
            \/ /\ value_matches_singles_or_ranges(item.capacity_min_ml[1], dims.ml_singles, dims.ml_ranges)
               /\ value_matches_singles_or_ranges(item.capacity_max_ml[1], dims.ml_singles, dims.ml_ranges)
       ELSE item.capacity_ml # <<>> =>
               value_matches_singles_or_ranges(item.capacity_ml[1], dims.ml_singles, dims.ml_ranges)

\* unicodedata NFD with the marks (category Mn) dropped, for one character
StripAccent(c) == IF c = "e'" THEN "e" ELSE IF c = "E'" THEN "E" ELSE c

normalize_brand_key(s) ==
    LET t == lower([i \in 1..Len(s) |-> StripAccent(s[i])])
        Keep(c) == c \in AsciiLower \cup Digits
    IN  SelectSeq(t, Keep)

\* ------------------------------------------------------------------------
\* match_word_items_to_excel_catalog
\* ------------------------------------------------------------------------
\* the entry the loop stores in dim_cache for a row's dimensions text
CacheEntry(mm_singles, mm_ranges, ml_singles, ml_ranges, dia_singles, dia_ranges) ==
    [mm_singles |-> mm_singles, mm_ranges |-> mm_ranges,
     ml_singles |-> ml_singles, ml_ranges |-> ml_ranges,
     dia_singles |-> IF dia_singles # <<>> THEN dia_singles ELSE mm_singles,
     dia_ranges |-> IF dia_ranges # <<>> THEN dia_ranges ELSE mm_ranges]

ConvertedDims(parsed_raw) ==
    CacheEntry(SinglesOf(parsed_raw.numbers, "mm"), RangesOf(parsed_raw.ranges, "mm"),
               SinglesOf(parsed_raw.numbers, "ml"), RangesOf(parsed_raw.ranges, "ml"),
               SinglesOf(parsed_raw.diameter_numbers, "mm"),
               RangesOf(parsed_raw.diameter_ranges, "mm"))

ParsedDims(text) == ConvertedDims(parse_dimensions_with_units(text))

HasBrand(item) == item.brand # <<>>

HasDimension(item) ==
    \/ item.length_mm # <<>> \/ item.width_mm # <<>> \/ item.height_mm # <<>>
    \/ item.height_min_mm # <<>> \/ item.height_max_mm # <<>>
    \/ item.diameter_mm # <<>> \/ item.capacity_ml # <<>>
    \/ item.capacity_min_ml # <<>> \/ item.capacity_max_ml # <<>>

BrandFilter_Fuzzy(item, cands) ==
    LET Keep(rec) == ratio(normalize_brand_key(rec[2].brand), normalize_brand_key(item.brand)) # RZero
    IN  SelectSeq(cands, Keep)

BrandFilter(item, cands) ==
    LET wanted == normalize_brand_key(item.brand)
        Keep(rec) == normalize_brand_key(rec[2].brand) = wanted
    IN  SelectSeq(cands, Keep)

\* the dimension filter loop: the rows kept, and dim_cache after it
RECURSIVE DimFilter(_, _, _)
\* one iteration: parsed is the row's entry, rest the outcome of the later iterations
DimFilterStep(item, cand, parsed, rest) ==
    [filtered |-> (IF row_satisfies_required_dimensions(item, parsed)
                   THEN <<cand>> ELSE <<>>) \o rest.filtered,
     cache |-> rest.cache]

DimFilterRow(item, cands, cache, parsed) ==
    DimFilterStep(item, Head(cands), parsed,
                  DimFilter(item, Tail(cands), cache @@ (Head(cands)[1] :> parsed)))

DimFilter(item, cands, cache) ==
    IF cands = <<>> THEN [filtered |-> <<>>, cache |-> cache]
    ELSE DimFilterRow(item, cands, cache,
                      IF Head(cands)[1] \in DOMAIN cache THEN cache[Head(cands)[1]]
                      ELSE ParsedDims(Head(cands)[2].dimensions))

\* scored.sort(key=lambda x: x[2], reverse=True): stable, descending
InsertDesc_TiesFirst(sorted, e) ==
    LET k == CHOOSE j \in 1..(Len(sorted) + 1) :
                /\ \A i \in 1..(j - 1) : RLess(e[3], sorted[i][3])
                /\ j = Len(sorted) + 1 \/ ~RLess(e[3], sorted[j][3])
    IN  SubSeq(sorted, 1, k - 1) \o <<e>> \o SubSeq(sorted, k, Len(sorted))

InsertDesc(sorted, e) ==
    LET k == CHOOSE j \in 1..(Len(sorted) + 1) :
                /\ \A i \in 1..(j - 1) : ~RLess(sorted[i][3], e[3])
                /\ j = Len(sorted) + 1 \/ RLess(sorted[j][3], e[3])
    IN  SubSeq(sorted, 1, k - 1) \o <<e>> \o SubSeq(sorted, k, Len(sorted))

RECURSIVE SortDesc(_)
SortDesc(scored) ==
    IF scored = <<>> THEN <<>>
    ELSE InsertDesc(SortDesc(SubSeq(scored, 1, Len(scored) - 1)), scored[Len(scored)])

Alternatives_OffByOne(scored, k) == SubSeq(scored, 1, Min2(k - 1, Len(scored)))

\* scored[:top_k]
Alternatives(scored, k) == SubSeq(scored, 1, Min2(k, Len(scored)))

Survivors_FallBack(item, records, cache) ==
    LET byBrand == IF HasBrand(item) THEN BrandFilter(item, records) ELSE records
        d == IF HasDimension(item) THEN DimFilter(item, byBrand, cache)
             ELSE [filtered |-> byBrand, cache |-> cache]
    IN  IF d.filtered = <<>> THEN [filtered |-> records, cache |-> d.cache] ELSE d

\* variant of Survivors: the brand filter runs for an item without a brand too
Survivors_AlwaysBrand(item, records, cache) ==
    IF HasDimension(item) THEN DimFilter(item, BrandFilter(item, records), cache)
    ELSE [filtered |-> BrandFilter(item, records), cache |-> cache]

\* the strict candidate filtering of one item: the candidates left, and dim_cache
Survivors(item, records, cache) ==
    LET byBrand == IF HasBrand(item) THEN BrandFilter(item, records) ELSE records
    IN  IF HasDimension(item) THEN DimFilter(item, byBrand, cache)
        ELSE [filtered |-> byBrand, cache |-> cache]

\* the result dict appended for one item
ResultDict(item, scored, k) ==
    IF scored # <<>>
    THEN [item |-> item, best_match |-> <<scored[1][1]>>, best_index |-> <<scored[1][2]>>,
          score |-> scored[1][3], alternatives |-> Alternatives(scored, k)]
    ELSE [item |-> item, best_match |-> <<>>, best_index |-> <<>>,
          score |-> RZero, alternatives |-> <<>>]

\* (row, idx, score) of every candidate, in candidate order
Scored(features, cands) ==
    [i \in 1..Len(cands) |->
        <<cands[i][2], cands[i][1],
          score_catalog_row_against_item(cands[i][2], features, weights)>>]

ResultOf(item, cands, k) ==
    ResultDict(item, SortDesc(Scored(extract_item_search_features(item), cands)), k)

\* ------------------------------------------------------------------------
\* The catalogs and the word items the matcher is run on
\* ------------------------------------------------------------------------
MaxRows == 2
MaxTopK == 2

\* code 'A1', brand 'Acme', type 'clamp', dimensions '50-72 mm'
Row_A1 ==
    [code |-> <<"A", "1">>, brand |-> <<"A", "c", "m", "e">>, type |-> <<"c", "l", "a", "m", "p">>, shape |-> <<>>,
     dimensions |-> <<"5", "0", "-", "7", "2", " ", "m", "m">>]
\* code 'A2', brand 'ACMÉ', type 'clip', dimensions '10 mm'
Row_A2 ==
    [code |-> <<"A", "2">>, brand |-> <<"A", "C", "M", "E'">>, type |-> <<"c", "l", "i", "p">>, shape |-> <<>>,
     dimensions |-> <<"1", "0", " ", "m", "m">>]
\* code 'B1', brand 'Bolt', type 'cup', dimensions '2 ml'
Row_B1 ==
    [code |-> <<"B", "1">>, brand |-> <<"B", "o", "l", "t">>, type |-> <<"c", "u", "p">>, shape |-> <<>>,
     dimensions |-> <<"2", " ", "m", "l">>]
\* code 'B2', brand 'Bolt', type 'clamp', dimensions ''
Row_B2 ==
    [code |-> <<"B", "2">>, brand |-> <<"B", "o", "l", "t">>, type |-> <<"c", "l", "a", "m", "p">>, shape |-> <<>>,
     dimensions |-> <<>>]
\* code 'C1', brand '', type 'jar', dimensions '5 kg'
Row_C1 ==
    [code |-> <<"C", "1">>, brand |-> <<>>, type |-> <<"j", "a", "r">>, shape |-> <<>>,
     dimensions |-> <<"5", " ", "k", "g">>]
\* code 'A3', brand 'Acme', type 'pin', dimensions '0.54 mm'
Row_A3 ==
    [code |-> <<"A", "3">>, brand |-> <<"A", "c", "m", "e">>, type |-> <<"p", "i", "n">>, shape |-> <<>>,
     dimensions |-> <<"0", ".", "5", "4", " ", "m", "m">>]
\* code 'D1', brand 'Acme', type 'rod', dimensions 'ø 12 mm x 60 mm'
Row_D1 ==
    [code |-> <<"D", "1">>, brand |-> <<"A", "c", "m", "e">>, type |-> <<"r", "o", "d">>, shape |-> <<>>,
     dimensions |-> <<"o/", " ", "1", "2", " ", "m", "m", " ", "x", " ", "6", "0", " ", "m", "m">>]
\* code 'B3', brand 'Bolt', type 'jug', dimensions '1-2 l'
Row_B3 ==
    [code |-> <<"B", "3">>, brand |-> <<"B", "o", "l", "t">>, type |-> <<"j", "u", "g">>, shape |-> <<>>,
     dimensions |-> <<"1", "-", "2", " ", "l">>]
\* code 'D2', brand 'Acme', type 'rod', dimensions 'ø 12 mm x 50-72 mm'
Row_D2 ==
    [code |-> <<"D", "2">>, brand |-> <<"A", "c", "m", "e">>, type |-> <<"r", "o", "d">>, shape |-> <<>>,
     dimensions |-> <<"o/", " ", "1", "2", " ", "m", "m", " ", "x", " ", "5", "0", "-", "7", "2", " ", "m", "m">>]


\* a word item with no field set
NoItem ==
    [brand |-> <<>>, shape |-> <<>>, type |-> <<>>, item_type |-> <<>>,
     code |-> <<>>, item_code |-> <<>>,
     length_mm |-> <<>>, length_op |-> "", width_mm |-> <<>>, width_op |-> "",
     height_mm |-> <<>>, height_op |-> "", height_min_mm |-> <<>>, height_max_mm |-> <<>>,
     diameter_mm |-> <<>>, diameter_op |-> "",
     capacity_ml |-> <<>>, capacity_min_ml |-> <<>>, capacity_max_ml |-> <<>>]

\* brand 'Acme', type 'clamp'
Item_Acme ==
    [NoItem EXCEPT !.brand = <<"A", "c", "m", "e">>, !.type = <<"c", "l", "a", "m", "p">>]
\* brand 'Zed', type 'clamp'
Item_Zed ==
    [NoItem EXCEPT !.brand = <<"Z", "e", "d">>, !.type = <<"c", "l", "a", "m", "p">>]
\* length_mm 60, length_op '='
Item_Len60 ==
    [NoItem EXCEPT !.length_mm = <<60000000>>, !.length_op = "="]
\* brand 'acme', length_mm 60, no operator
Item_AcmeLen60 ==
    [NoItem EXCEPT !.brand = <<"a", "c", "m", "e">>, !.length_mm = <<60000000>>]
\* capacity_ml 2, shape 'cup'
Item_Cap2 ==
    [NoItem EXCEPT !.capacity_ml = <<2000000>>, !.shape = <<"c", "u", "p">>]
\* type 'clip', code 'A2'
Item_Clip ==
    [NoItem EXCEPT !.type = <<"c", "l", "i", "p">>, !.code = <<"A", "2">>]
\* length_mm 0.5, length_op '='
Item_LenHalf ==
    [NoItem EXCEPT !.length_mm = <<500000>>, !.length_op = "="]
\* diameter_mm 12, diameter_op '>=', height_mm 10, height_op '>'
Item_Dia12 ==
    [NoItem EXCEPT !.diameter_mm = <<12000000>>, !.diameter_op = ">=",
                   !.height_mm = <<10000000>>, !.height_op = ">"]
\* height 55..70 mm
Item_Height ==
    [NoItem EXCEPT !.height_min_mm = <<55000000>>, !.height_max_mm = <<70000000>>]
\* capacity 1500..2000 ml, item_type 'jug'
Item_CapRange ==
    [NoItem EXCEPT !.capacity_min_ml = <<1500000000>>, !.capacity_max_ml = <<2000000000>>, !.item_type = <<"j", "u", "g">>]
\* width_mm 10, width_op '<'
Item_Width ==
    [NoItem EXCEPT !.width_mm = <<10000000>>, !.width_op = "<"]
\* capacity_ml 2000, type 'jug'
Item_Cap2000 ==
    [NoItem EXCEPT !.capacity_ml = <<2000000000>>, !.type = <<"j", "u", "g">>]
\* length_mm 61, length_op '<=', item_code 'A9'
Item_Len61 ==
    [NoItem EXCEPT !.length_mm = <<61000000>>, !.length_op = "<=", !.item_code = <<"A", "9">>]

\* height 55..70 mm and height_mm 10, height_op '='
Item_HeightBoth ==
    [NoItem EXCEPT !.height_min_mm = <<55000000>>, !.height_max_mm = <<70000000>>,
                   !.height_mm = <<10000000>>, !.height_op = "="]
\* height 48..75 mm
Item_Height4875 ==
    [NoItem EXCEPT !.height_min_mm = <<48000000>>, !.height_max_mm = <<75000000>>]
\* height 12..60 mm
Item_Height1260 ==
    [NoItem EXCEPT !.height_min_mm = <<12000000>>, !.height_max_mm = <<60000000>>]
\* diameter_mm 60, diameter_op '='
Item_Dia60 ==
    [NoItem EXCEPT !.diameter_mm = <<60000000>>, !.diameter_op = "="]
\* brand 'Acne', type 'clamp'
Item_Acne ==
    [NoItem EXCEPT !.brand = <<"A", "c", "n", "e">>, !.type = <<"c", "l", "a", "m", "p">>]
\* brand 'Ac me.', type 'clip'
Item_AcmeSpaced ==
    [NoItem EXCEPT !.brand = <<"A", "c", " ", "m", "e", ".">>, !.type = <<"c", "l", "i", "p">>]

\* the inputs drawn: a catalog is up to MaxRows rows of one section, in any order
\* and with repeats, and word_items one of the section's batches (two items in
\* a batch share dim_cache)
Sections ==
    {[rows |-> {Row_A1, Row_A2, Row_B2, Row_C1},
      batches |-> {<<NoItem>>, <<Item_Acme>>, <<Item_Zed>>, <<Item_Clip>>,
                   <<Item_AcmeLen60>>, <<Item_Zed, Item_Len61>>,
                   <<Item_Acne>>, <<Item_AcmeSpaced>>}],
     [rows |-> {Row_A1, Row_A2, Row_A3, Row_B2},
      batches |-> {<<Item_Len60>>, <<Item_LenHalf>>, <<Item_Len61>>, <<Item_Width>>,
                   <<Item_Height>>, <<Item_AcmeLen60>>, <<Item_HeightBoth>>,
                   <<Item_Height4875>>}],
     [rows |-> {Row_B1, Row_B3, Row_C1, Row_B2},
      batches |-> {<<Item_Cap2>>, <<Item_Cap2000>>, <<Item_CapRange>>,
                   <<Item_Len60, Item_Cap2>>}],
     [rows |-> {Row_D1, Row_A1, Row_A3, Row_B2},
      batches |-> {<<Item_Dia12>>, <<Item_Height, Item_Dia12>>, <<Item_Len60>>,
                   <<Item_Height1260>>}],
     [rows |-> {Row_D1, Row_D2, Row_A1},
      batches |-> {<<Item_Dia60>>, <<Item_Dia12>>}]}

\* catalog_df_to_record_list of a DataFrame with a RangeIndex: (0, row0), (1, row1), ...
catalog_df_to_record_list(rows) == [i \in 1..Len(rows) |-> <<i - 1, rows[i]>>]

MatchInit ==
    /\ call = [fn |-> "match_word_items_to_excel_catalog"]
    /\ \E section \in Sections :
          /\ \E rows \in SeqsUpTo(section.rows, MaxRows) :
                catalog_records = catalog_df_to_record_list(rows)
          /\ word_items \in section.batches
    /\ top_k \in 1..MaxTopK
    /\ item_no = 0
    /\ dim_cache = <<>>
    /\ candidates = <<>>
    /\ results = <<>>
    /\ NoDbState

\* one iteration of `for raw_item in word_items`
MatchItem ==
    /\ item_no < Len(word_items)
    /\ \E kept \in {Survivors(word_items[item_no + 1], catalog_records, dim_cache)} :
          /\ candidates' = kept.filtered
          /\ dim_cache' = kept.cache
          /\ results' = Append(results, ResultOf(word_items[item_no + 1], kept.filtered, top_k))
    /\ item_no' = item_no + 1
    /\ UNCHANGED <<call, catalog_records, word_items, top_k, db, conns>>

MatchNext == MatchItem

SpecMatch == MatchInit /\ [][MatchNext]_vars

\* ------------------------------------------------------------------------
\* Properties of match_word_items_to_excel_catalog
\* ------------------------------------------------------------------------
Rows == {catalog_records[i] : i \in 1..Len(catalog_records)}

\* the filter, stated on one (index, row) record: the row's brand key equals the
\* item's, and the row's own dimensions text meets the item's constraints
PassesFilter(item, rec) ==
    /\ HasBrand(item) => normalize_brand_key(rec[2].brand) = normalize_brand_key(item.brand)
    /\ HasDimension(item) =>
          row_satisfies_required_dimensions(item, ParsedDims(rec[2].dimensions))

SurvivorsOf(item) == {rec \in Rows : PassesFilter(item, rec)}

IsNoMatch(r) ==
    r.best_match = <<>> /\ r.best_index = <<>> /\ r.score = RZero /\ r.alternatives = <<>>

AltRecs(r) == {<<r.alternatives[i][2], r.alternatives[i][1]>> : i \in 1..Len(r.alternatives)}

ScoreOf(item, rec) ==
    score_catalog_row_against_item(rec[2], extract_item_search_features(item), weights)

\* C1: when the item carries a brand or a dimension constraint and no row passes
\* the filter, the result is best_match None, best_index None, score 0.0 and no
\* alternatives; no row the filter removes is ever returned.
C1_HardFilter ==
    \A k \in 1..Len(results) :
        LET r == results[k]
            item == word_items[k]
        IN  /\ ((HasBrand(item) \/ HasDimension(item)) /\ SurvivorsOf(item) = {})
                  => IsNoMatch(r)
            /\ AltRecs(r) \subseteq SurvivorsOf(item)
            /\ r.best_match # <<>> => <<r.best_index[1], r.best_match[1]>> \in SurvivorsOf(item)

\* brand 'Zed' against a catalog holding a 'clamp' row: the type matches, no result
C1_Witness ==
    /\ Len(results) >= 1
    /\ word_items[1] = Item_Zed
    /\ <<0, Row_A1>> \in Rows
    /\ IsNoMatch(results[1])

InUnit(p) == 0 <= p.n /\ p.n <= p.d /\ p.d > 0

\* no field of the item contributes to the score
ContributesNothing(item) ==
    /\ tokenize_simple(item.brand) = <<>> /\ tokenize_simple(item.shape) = <<>>
    /\ tokenize_simple(item.type) = <<>> /\ tokenize_simple(item.item_type) = <<>>
    /\ item.code = <<>> /\ item.item_code = <<>>
    /\ item.length_mm = <<>> /\ item.height_mm = <<>> /\ item.diameter_mm = <<>>
    /\ item.capacity_ml = <<>>
    /\ item.height_min_mm = <<>> \/ item.height_max_mm = <<>>
    /\ item.capacity_min_ml = <<>> \/ item.capacity_max_ml = <<>>

\* C5: the best score and every score in alternatives lie in [0, 1]; they are 0.0
\* when no field of the item contributes.
C5_ScoreBounded ==
    \A k \in 1..Len(results) :
        LET r == results[k]
        IN  /\ InUnit(r.score)
            /\ \A i \in 1..Len(r.alternatives) :
                  /\ InUnit(r.alternatives[i][3])
                  /\ ContributesNothing(word_items[k]) => r.alternatives[i][3] = RZero

\* a returned score strictly between 0 and 1, and a full score
C5_Witness ==
    /\ Len(results) >= 1
    /\ Len(results[1].alternatives) = 2
    /\ results[1].alternatives[1][3] = ROne
    /\ 0 < results[1].alternatives[2][3].n
    /\ results[1].alternatives[2][3].n < results[1].alternatives[2][3].d

\* C6: when at least one row survives, alternatives holds min(top_k, survivors)
\* entries, no survivor left out outranks one of them, and best_match, best_index
\* and score are those of alternatives[0].
C6_TopK ==
    \A k \in 1..Len(results) :
        LET r == results[k]
            item == word_items[k]
            alts == r.alternatives
        IN  SurvivorsOf(item) # {} =>
              /\ Len(alts) = Min2(top_k, Cardinality(SurvivorsOf(item)))
              /\ Cardinality(AltRecs(r)) = Len(alts)
              /\ \A rec \in SurvivorsOf(item) \ AltRecs(r) :
                    \A i \in 1..Len(alts) : ~RLess(alts[i][3], ScoreOf(item, rec))
              /\ \A i \in 1..Len(alts) : alts[i][3] = ScoreOf(item, <<alts[i][2], alts[i][1]>>)
              /\ r.best_match = <<alts[1][1]>>
              /\ r.best_index = <<alts[1][2]>>
              /\ r.score = alts[1][3]

\* two survivors and top_k = 1: one alternative, the better of the two
C6_Witness ==
    /\ Len(results) >= 1
    /\ top_k = 1
    /\ Cardinality(SurvivorsOf(word_items[1])) = 2
    /\ Len(results[1].alternatives) = 1
    /\ results[1].best_index = <<1>>

\* C7: alternatives is ordered by non-increasing score, rows of equal score stand
\* in catalog order, and the best match is the first catalog row among the
\* survivors of the highest score.
C7_StableDescending ==
    \A k \in 1..Len(results) :
        LET r == results[k]
            item == word_items[k]
            alts == r.alternatives
        IN  /\ \A i, j \in 1..Len(alts) :
                  i < j => /\ ~RLess(alts[i][3], alts[j][3])
                           /\ alts[i][3] = alts[j][3] => alts[i][2] < alts[j][2]
            /\ \A rec \in SurvivorsOf(item) :
                  r.best_match # <<>> =>
                     /\ ~RLess(r.score, ScoreOf(item, rec))
                     /\ ScoreOf(item, rec) = r.score => r.best_index[1] <= rec[1]

\* two rows of equal, non-zero score returned in catalog order
C7_Witness ==
    /\ Len(results) >= 1
    /\ Len(results[1].alternatives) = 2
    /\ results[1].alternatives[1][3] = results[1].alternatives[2][3]
    /\ results[1].alternatives[1][3] # RZero
    /\ results[1].alternatives[1][1] # results[1].alternatives[2][1]
    /\ results[1].alternatives[1][2] = 0 /\ results[1].alternatives[2][2] = 1

\* the unit classes the item constrains
ConstrainedClasses(item) ==
    (IF \/ item.length_mm # <<>> \/ item.width_mm # <<>> \/ item.height_mm # <<>>
        \/ item.height_min_mm # <<>> /\ item.height_max_mm # <<>>
     THEN {"mm"} ELSE {})
    \cup (IF item.diameter_mm # <<>> THEN {"dia"} ELSE {})
    \cup (IF \/ item.capacity_ml # <<>>
             \/ item.capacity_min_ml # <<>> /\ item.capacity_max_ml # <<>>
          THEN {"ml"} ELSE {})

\* the row's dimensions text gives no value, single or range, for the class
NoValue(rec, cls) ==
    LET dims == ParsedDims(rec[2].dimensions)
    IN  CASE cls = "mm" -> dims.mm_singles = <<>> /\ dims.mm_ranges = <<>>
          [] cls = "dia" -> dims.dia_singles = <<>> /\ dims.dia_ranges = <<>>
          [] OTHER -> dims.ml_singles = <<>> /\ dims.ml_ranges = <<>>

\* C8: a row whose dimensions text gives no numeric value for the unit class of a
\* dimension the item constrains is excluded by the filter: it is not among the
\* candidates kept for the item and not in its result.
C8_MissingDataFails ==
    \A k \in 1..Len(results) :
        \A rec \in Rows :
            (\E cls \in ConstrainedClasses(word_items[k]) : NoValue(rec, cls)) =>
                /\ rec \notin AltRecs(results[k])
                /\ results[k].best_index # <<rec[1]>>
                /\ k = Len(results) => rec \notin Range(candidates)

\* capacity 2000 ml against a row without dimensions and the row '1-2 l': only
\* the second is kept
C8_Witness ==
    /\ Len(results) = 1
    /\ word_items[1] = Item_Cap2000
    /\ catalog_records = <<<<0, Row_B2>>, <<1, Row_B3>>>>
    /\ candidates = <<<<1, Row_B3>>>>
    /\ results[1].best_index = <<1>>

\* the item constrains its length with '=' or no operator, and nothing else
LengthEqualsOnly(item) ==
    /\ item.length_mm # <<>> /\ item.length_op \in {"=", ""}
    /\ ~HasBrand(item)
    /\ ConstrainedClasses([item EXCEPT !.length_mm = <<>>]) = {}

FivePercentOf(x) == x \div 20

\* v is inside some parsed range widened by 5% at both ends
InsideWidenedRange(v, dims) ==
    \E i \in 1..Len(dims.mm_ranges) :
        /\ dims.mm_ranges[i][1] - FivePercentOf(dims.mm_ranges[i][1]) - 1 <= v
        /\ v <= dims.mm_ranges[i][2] + FivePercentOf(dims.mm_ranges[i][2]) + 1

\* the two rows of the example, for the query length_mm = 60
C9_Examples ==
    (Len(results) >= 1 /\ word_items[Len(results)] = Item_Len60) =>
        \A rec \in Rows :
            /\ rec[2].dimensions = Row_A1.dimensions => rec \in Range(candidates)
            /\ rec[2].dimensions = Row_A2.dimensions => rec \notin Range(candidates)

\* C9 as claimed: with '=' or no operator a row passes the length filter iff v
\* is within 5% of a parsed single value (of the larger of the two) or inside a
\* parsed range widened by 5% at both ends; '50-72 mm' passes for 60, '10 mm' fails.
C9_LengthEqualsFivePercent ==
    /\ C9_Examples
    /\ (Len(results) >= 1 /\ LengthEqualsOnly(word_items[Len(results)])) =>
          LET v == word_items[Len(results)].length_mm[1]
          IN  \A rec \in Rows :
                LET dims == ParsedDims(rec[2].dimensions)
                IN  rec \in Range(candidates) <=>
                      \/ \E i \in 1..Len(dims.mm_singles) :
                            Abs(dims.mm_singles[i] - v)
                                <= FivePercentOf(Max2(v, dims.mm_singles[i])) + 1
                      \/ InsideWidenedRange(v, dims)

\* C9 (amended): with '=' or no operator a row passes the length filter iff v
\* differs from a parsed single value x by at most 5% of max(v, x, 1.0) (plus
\* 1e-6) or lies inside a parsed range widened by 5% at both ends; '50-72 mm'
\* passes for 60, '10 mm' fails.
C9_LengthEquals ==
    /\ C9_Examples
    /\ (Len(results) >= 1 /\ LengthEqualsOnly(word_items[Len(results)])) =>
          LET v == word_items[Len(results)].length_mm[1]
          IN  \A rec \in Rows :
                LET dims == ParsedDims(rec[2].dimensions)
                IN  rec \in Range(candidates) <=>
                      \/ \E i \in 1..Len(dims.mm_singles) :
                            Abs(dims.mm_singles[i] - v)
                                <= FivePercentOf(Max2(Max2(v, dims.mm_singles[i]), One)) + 1
                      \/ InsideWidenedRange(v, dims)

\* length 60 against '50-72 mm' and '10 mm': the first is kept, the second not
C9_Witness ==
    /\ Len(results) = 1
    /\ word_items[1] = Item_Len60
    /\ catalog_records = <<<<0, Row_A1>>, <<1, Row_A2>>>>
    /\ candidates = <<<<0, Row_A1>>>>

\* length 0.5 against '0.54 mm': 8% apart, kept
C9_WitnessSubUnit ==
    /\ Len(results) = 1
    /\ word_items[1] = Item_LenHalf
    /\ <<0, Row_A3>> \in Range(candidates)

\* the numbers of a text, each with the run of letters written after it
RECURSIVE WrittenNumbers(_, _)
WrittenNumbers(t, i) ==
    IF i > Len(t) THEN <<>>
    ELSE IF t[i] \notin Digits THEN WrittenNumbers(t, i + 1)
    ELSE LET e == NumberEnd(t, i)
             u == SkipWhile(t, e, SpaceChars)
             w == SkipWhile(t, u, Range(LowerChars))
         IN  <<[val |-> FloatOf(Slice(t, i, e)), unit |-> Slice(t, u, w)]>>
                 \o WrittenNumbers(t, w)

\* the conversion tables; a number with no unit written counts in both classes
TableValue(n, target) ==
    IF n.unit = <<>> THEN <<n.val>>
    ELSE IF target = "mm" /\ n.unit = Txt_mm THEN <<n.val>>
    ELSE IF target = "mm" /\ n.unit = Txt_cm THEN <<n.val * 10>>
    ELSE IF target = "mm" /\ n.unit = Txt_m THEN <<n.val * 1000>>
    ELSE IF target = "ml" /\ n.unit = Txt_ml THEN <<n.val>>
    ELSE IF target = "ml" /\ n.unit = Txt_l THEN <<n.val * 1000>>
    ELSE <<>>

TableValues(text, target) ==
    LET ns == WrittenNumbers(lower(text), 1)
    IN  Flatten([i \in 1..Len(ns) |-> TableValue(ns[i], target)])

\* C10: for every number of a row's dimensions text, the length set holds the
\* number times the factor of the unit written after it (mm 1, cm 10, m 1000) and
\* the volume set the number times the factor of its unit (ml 1, l 1000); a unit
\* of the other class or an unrecognised unit gives no value ('2 ml' gives 2 in
\* the volume set and nothing in the length set).
C10_UnitTables ==
    \A idx \in DOMAIN dim_cache :
        LET text == catalog_records[idx + 1][2].dimensions
        IN  /\ dim_cache[idx].mm_singles = TableValues(text, "mm")
            /\ dim_cache[idx].ml_singles = TableValues(text, "ml")

\* the item sets no brand and none of the nine dimension fields
Unconstrained(item) ==
    /\ item.brand = <<>>
    /\ item.length_mm = <<>> /\ item.width_mm = <<>> /\ item.height_mm = <<>>
    /\ item.height_min_mm = <<>> /\ item.height_max_mm = <<>>
    /\ item.diameter_mm = <<>>
    /\ item.capacity_ml = <<>> /\ item.capacity_min_ml = <<>> /\ item.capacity_max_ml = <<>>

\* how often the catalog record rec stands in alternatives
TimesListed(r, rec) ==
    Cardinality({j \in 1..Len(r.alternatives) :
                    r.alternatives[j][2] = rec[1] /\ r.alternatives[j][1] = rec[2]})

\* C13: for an item with no brand and no dimension field no row is removed: the
\* candidates are the whole catalog, min(top_k, rows) of them are returned, and
\* with top_k >= the number of rows alternatives holds every catalog row exactly
\* once.
C13_NoConstraintNoFilter ==
    \A k \in 1..Len(results) :
        Unconstrained(word_items[k]) =>
            /\ k = item_no => candidates = catalog_records
            /\ Len(results[k].alternatives) = Min2(top_k, Len(catalog_records))
            /\ top_k >= Len(catalog_records) =>
                  \A i \in 1..Len(catalog_records) :
                      TimesListed(results[k], catalog_records[i]) = 1

\* type 'clip', code 'A2' against the rows A1, A2 with top_k = 2: both rows are
\* returned, the second row first
C13_Witness ==
    /\ Len(results) = 1
    /\ word_items[1] = Item_Clip
    /\ catalog_records = <<<<0, Row_A1>>, <<1, Row_A2>>>>
    /\ top_k = 2
    /\ Len(results[1].alternatives) = 2
    /\ results[1].alternatives[1][2] = 1

\* C15: when the item carries a brand, the rows that survive the brand filter
\* are exactly the rows whose normalized brand (diacritics stripped, lowercased,
\* non-alphanumerics removed) equals the item's normalized brand, in catalog
\* order; a row whose normalized brand differs is in no result, however well
\* its other fields match.
SameBrandKey(a, b) == normalize_brand_key(a) = normalize_brand_key(b)

C15_BrandExact ==
    (item_no >= 1 /\ HasBrand(word_items[item_no])) =>
        LET item == word_items[item_no]
            Same(rec) == SameBrandKey(rec[2].brand, item.brand)
        IN  /\ ~HasDimension(item) => candidates = SelectSeq(catalog_records, Same)
            /\ \A i \in 1..Len(candidates) : Same(candidates[i])
            /\ \A rec \in AltRecs(results[item_no]) : Same(rec)

\* 'Acne' against 'Acme' and 'ACME' with an acute accent: one character off,
\* the clamp row is dropped although its type matches
C15_Witness ==
    /\ item_no = 1
    /\ word_items = <<Item_Acne>>
    /\ catalog_records = catalog_df_to_record_list(<<Row_A1, Row_A2>>)
    /\ candidates = <<>>
    /\ IsNoMatch(results[1])

\* 'Ac me.' keeps the rows of brand 'Acme' and 'ACME' with an acute accent
C15_WitnessKept ==
    /\ item_no = 1
    /\ word_items = <<Item_AcmeSpaced>>
    /\ catalog_records = catalog_df_to_record_list(<<Row_B2, Row_A2>>)
    /\ candidates = <<<<1, Row_A2>>>>

\* the diameter-tagged values of a row's dimensions text, in mm
TaggedSingles(text) == SinglesOf(parse_dimensions_with_units(text).diameter_numbers, "mm")

TaggedRanges(text) == RangesOf(parse_dimensions_with_units(text).diameter_ranges, "mm")

\* the values a diameter constraint is to be evaluated against: the tagged
\* ones, or the generic length ones when the text has no tagged value at all
DiameterValues(text) ==
    IF TaggedSingles(text) # <<>> \/ TaggedRanges(text) # <<>>
    THEN [singles |-> TaggedSingles(text), ranges |-> TaggedRanges(text)]
    ELSE [singles |-> SinglesOf(parse_dimensions_with_units(text).numbers, "mm"),
          ranges |-> RangesOf(parse_dimensions_with_units(text).ranges, "mm")]

MeetsDiameter(item, rec) ==
    satisfies_dimension_constraint(item.diameter_mm[1], item.diameter_op,
                                   DiameterValues(rec[2].dimensions).singles,
                                   DiameterValues(rec[2].dimensions).ranges)

\* C17: a row with a diameter-tagged value is kept for a diameter constraint
\* only if the constraint holds on its tagged singles and ranges; the generic
\* length singles and ranges decide only for a row with no tagged value.  For
\* an item whose only constraint is the diameter the rows kept are exactly
\* the rows that meet it so.
C17_TaggedDiameterOnly ==
    (item_no >= 1 /\ word_items[item_no].diameter_mm # <<>>) =>
        LET item == word_items[item_no]
        IN  /\ \A i \in 1..Len(candidates) : MeetsDiameter(item, candidates[i])
            /\ item = [NoItem EXCEPT !.diameter_mm = item.diameter_mm,
                                     !.diameter_op = item.diameter_op]
                  => \A rec \in Rows : MeetsDiameter(item, rec) => rec \in Range(candidates)

\* [lo, hi] lies inside some range of rs widened by 5% at both ends
InsideWidened(lo, hi, rs) ==
    \E i \in 1..Len(rs) :
        rs[i][1] - rs[i][1] \div TolDen - Eps <= lo /\ hi <= rs[i][2] + rs[i][2] \div TolDen + Eps

\* v matches a single of xs within 5% (of the larger of the two, and of 1.0 at
\* least) or lies inside a widened range of rs
MatchesPoint(v, xs, rs) ==
    \/ \E i \in 1..Len(xs) : Abs(xs[i] - v) <= Max2(Max2(v, xs[i]), One) \div TolDen + Eps
    \/ InsideWidened(v, v, rs)

MeetsRange(lo, hi, xs, rs) ==
    InsideWidened(lo, hi, rs) \/ (MatchesPoint(lo, xs, rs) /\ MatchesPoint(hi, xs, rs))

\* the (min, max) constraints of an item, each with the unit class it reads
RangeConstraints(item) ==
    (IF item.height_min_mm # <<>> /\ item.height_max_mm # <<>>
     THEN {[lo |-> item.height_min_mm[1], hi |-> item.height_max_mm[1], cls |-> "mm"]} ELSE {})
    \cup (IF item.capacity_min_ml # <<>> /\ item.capacity_max_ml # <<>>
          THEN {[lo |-> item.capacity_min_ml[1], hi |-> item.capacity_max_ml[1], cls |-> "ml"]}
          ELSE {})

MeetsRanges(item, rec) ==
    \A c \in RangeConstraints(item) :
        MeetsRange(c.lo, c.hi,
                   SinglesOf(parse_dimensions_with_units(rec[2].dimensions).numbers, c.cls),
                   RangesOf(parse_dimensions_with_units(rec[2].dimensions).ranges, c.cls))

\* the item asks for nothing but (min, max) ranges and, maybe, single values
\* of the same dimensions
OnlyRanges(item) ==
    /\ RangeConstraints(item) # {}
    /\ item = [NoItem EXCEPT !.height_min_mm = item.height_min_mm,
                             !.height_max_mm = item.height_max_mm,
                             !.height_mm = IF item.height_min_mm # <<>> THEN item.height_mm ELSE <<>>,
                             !.height_op = IF item.height_min_mm # <<>> THEN item.height_op ELSE "",
                             !.capacity_min_ml = item.capacity_min_ml,
                             !.capacity_max_ml = item.capacity_max_ml,
                             !.capacity_ml = IF item.capacity_min_ml # <<>> THEN item.capacity_ml ELSE <<>>,
                             !.item_type = item.item_type]

\* C22: a row survives a (min, max) height or capacity constraint if and only
\* if the query range lies inside a reference range widened by 5% at both
\* ends, or min and max each match a reference single within 5% or lie inside
\* a widened reference range; a single value given beside the range is not
\* enforced.
C22_RangeFilter ==
    (item_no >= 1 /\ RangeConstraints(word_items[item_no]) # {}) =>
        LET item == word_items[item_no]
        IN  /\ \A i \in 1..Len(candidates) : MeetsRanges(item, candidates[i])
            /\ OnlyRanges(item) =>
                  \A rec \in Rows : MeetsRanges(item, rec) => rec \in Range(candidates)

\* height 55..70 with height '=' 10 against '50-72 mm' and '10 mm': the first
\* row is kept, the second dropped
C22_Witness ==
    /\ item_no = 1
    /\ word_items = <<Item_HeightBoth>>
    /\ catalog_records = catalog_df_to_record_list(<<Row_A1, Row_A2>>)
    /\ candidates = <<<<0, Row_A1>>>>

\* height 12..60 against 'o/ 12 mm x 60 mm' (both ends match a single) and
\* '50-72 mm' (the range overlaps, the lower end matches nothing)
C22_WitnessWidened ==
    /\ item_no = 1
    /\ word_items = <<Item_Height4875>>
    /\ catalog_records = catalog_df_to_record_list(<<Row_A1, Row_A2>>)
    /\ candidates = <<<<0, Row_A1>>>>

C22_WitnessEnds ==
    /\ item_no = 1
    /\ word_items = <<Item_Height1260>>
    /\ catalog_records = catalog_df_to_record_list(<<Row_D1, Row_A1>>)
    /\ candidates = <<<<0, Row_D1>>>>

\* ------------------------------------------------------------------------
\* satisfies_dimension_constraint applied to drawn arguments
\* ------------------------------------------------------------------------
MaxSingles == 1
MaxRanges == 1

\* 0, 0.00002, 0.00004, 0.02, 0.02*1.049, 0.02*1.06, 1, 10, 10*1.049, 10*1.06
DimValues == {0, 20, 40, 20000, 20980, 21200, One, 10 * One, 10490000, 10600000}
DimRanges == {<<20000, One>>, <<One, 10 * One>>, <<10 * One, 10600000>>, <<10490000, 10490000>>}
DimOps == {"", "=", ">=", "<=", ">", "<"}

NoMatchState ==
    /\ catalog_records = <<>>
    /\ word_items = <<>>
    /\ top_k = 1
    /\ item_no = 0
    /\ dim_cache = <<>>
    /\ candidates = <<>>
    /\ results = <<>>

DimInit ==
    /\ call \in [fn : {"satisfies_dimension_constraint"},
                 v : DimValues, op : DimOps,
                 singles : SeqsUpTo(DimValues, MaxSingles),
                 ranges : SeqsUpTo(DimRanges, MaxRanges),
                 ret : {<<>>}]
    /\ NoMatchState
    /\ NoDbState

CallSatisfies ==
    /\ call.fn = "satisfies_dimension_constraint"
    /\ call.ret = <<>>
    /\ call' = [call EXCEPT !.ret =
                   <<satisfies_dimension_constraint(call.v, call.op, call.singles, call.ranges)>>]
    /\ UNCHANGED <<matchVars, dbVars>>

DimNext == CallSatisfies

SpecDim == DimInit /\ [][DimNext]_vars

DimDone == call.fn = "satisfies_dimension_constraint" /\ call.ret # <<>>

\* q = x * num / den, exactly
IsTimes(q, x, num, den) == x % den = 0 /\ q = (x \div den) * num

\* C2 (as claimed): for every v >= 0 and every operator op,
\* satisfies_dimension_constraint(v, op, singles=[v], ranges=[]) is true.
C2_SelfSatisfiesEveryOp ==
    (DimDone /\ call.singles = <<call.v>> /\ call.ranges = <<>> /\ call.v >= 0)
        => call.ret = <<TRUE>>

\* C2 (amended): with singles=[v] and ranges=[] the result is true for '=', '>=',
\* '<=' (and no operator) at every v >= 0; for '>' and '<' it is true as soon as
\* 5% of v exceeds eps (v > 0.00002) and false at v = 0.
C2_SelfSatisfies ==
    (DimDone /\ call.singles = <<call.v>> /\ call.ranges = <<>> /\ call.v >= 0)
        => /\ call.op \in {"", "=", ">=", "<="} => call.ret = <<TRUE>>
           /\ (call.op \in {">", "<"} /\ TolOf(call.v) > Eps) => call.ret = <<TRUE>>
           /\ (call.op \in {">", "<"} /\ call.v = 0) => call.ret = <<FALSE>>

C2_Witness ==
    /\ DimDone /\ call.singles = <<call.v>> /\ call.ranges = <<>>
    /\ call.op = ">" /\ call.v = 40 /\ call.ret = <<TRUE>>

\* C3 (as claimed): for every v > 0, satisfies(v*1.049, '<=', [v], []) is true and
\* satisfies(v*1.06, '<=', [v], []) is false.
C3_LeBoundaryOnQuery ==
    (DimDone /\ call.op = "<=" /\ call.ranges = <<>> /\ Len(call.singles) = 1
             /\ call.singles[1] > 0)
        => /\ IsTimes(call.v, call.singles[1], 1049, 1000) => call.ret = <<TRUE>>
           /\ IsTimes(call.v, call.singles[1], 106, 100) => call.ret = <<FALSE>>

\* C3 (amended): for every v > 0, satisfies(v*1.049, '<=', [v], []) and
\* satisfies(v*1.06, '<=', [v], []) are both true (a reference value below the
\* query always satisfies '<='); the 5% boundary is on the reference value:
\* satisfies(v, '<=', [v*1.049], []) is true and satisfies(v, '<=', [v*1.06], [])
\* is false (for v > 0.0001, where 1% of v exceeds eps).
C3_LeBoundary ==
    (DimDone /\ call.op = "<=" /\ call.ranges = <<>> /\ Len(call.singles) = 1)
        => /\ (call.singles[1] > 0 /\ IsTimes(call.v, call.singles[1], 1049, 1000))
                => call.ret = <<TRUE>>
           /\ (call.singles[1] > 0 /\ IsTimes(call.v, call.singles[1], 106, 100))
                => call.ret = <<TRUE>>
           /\ (call.v > 0 /\ IsTimes(call.singles[1], call.v, 1049, 1000))
                => call.ret = <<TRUE>>
           /\ (call.v > 100 /\ IsTimes(call.singles[1], call.v, 106, 100))
                => call.ret = <<FALSE>>

C3_Witness ==
    /\ DimDone /\ call.op = "<=" /\ call.ranges = <<>>
    /\ call.singles = <<10 * One>> /\ call.v = 10600000 /\ call.ret = <<TRUE>>

C3_WitnessReference ==
    /\ DimDone /\ call.op = "<=" /\ call.ranges = <<>>
    /\ call.singles = <<10600000>> /\ call.v = 10 * One /\ call.ret = <<FALSE>>

\* the single values and the range endpoints of the call
CallPoints ==
    Range(call.singles) \cup UNION {{call.ranges[i][1], call.ranges[i][2]} : i \in 1..Len(call.ranges)}

DegenerateTexts == {<<"*", "*">>, <<" ">>}

TextFields == {"brand", "shape", "type", "item_type"}

NumericFields == {"length_mm", "height_mm", "diameter_mm", "capacity_ml"}

\* the values a numeric-only item asks for: 2, 12, 60, 61, 63 and 64
ScoreValues == {2 * One, 12 * One, 60 * One, 61 * One, 63 * One, 64 * One}

ScoreRows == {Row_A1, Row_A2, Row_B1, Row_B2, Row_B3, Row_C1, Row_D1}

\* base and base with one of its empty text fields set to a degenerate text
WithDegenerate(base) ==
    {base} \cup {[base EXCEPT ![f] = d] :
                    f \in {g \in TextFields : base[g] = <<>>}, d \in DegenerateTexts}

NumericItems == {[NoItem EXCEPT ![f] = <<v>>] : f \in NumericFields, v \in ScoreValues}

\* the (min, max) ranges a range-only item asks for, in mm or in ml
ScoreRanges ==
    {<<55 * One, 70 * One>>, <<50 * One, 72 * One>>, <<12 * One, 60 * One>>,
     <<73 * One, 113 * One>>, <<80 * One, 90 * One>>, <<60 * One, 60 * One>>,
     <<1500 * One, 2000 * One>>}

RangeItems ==
    {[NoItem EXCEPT !.height_min_mm = <<r[1]>>, !.height_max_mm = <<r[2]>>] : r \in ScoreRanges}
        \cup {[NoItem EXCEPT !.capacity_min_ml = <<r[1]>>, !.capacity_max_ml = <<r[2]>>] :
                  r \in ScoreRanges}

ScoreItems ==
    UNION {WithDegenerate(base) :
              base \in {NoItem, Item_Acme, Item_Clip, Item_Cap2, Item_CapRange,
                        Item_Len61, Item_AcmeLen60}}
        \cup NumericItems \cup RangeItems

ScoreInit ==
    /\ call \in [fn : {"score_catalog_row_against_item"},
                 row : ScoreRows, item : ScoreItems, ret : {<<>>}]
    /\ NoMatchState
    /\ NoDbState

\* features = extract_item_search_features(item);
\* score_catalog_row_against_item(row, features, weights)
CallScore ==
    /\ call.fn = "score_catalog_row_against_item"
    /\ call.ret = <<>>
    /\ call' = [call EXCEPT !.ret =
                   <<score_catalog_row_against_item(
                        call.row, extract_item_search_features(call.item), weights)>>]
    /\ UNCHANGED <<matchVars, dbVars>>

ScoreNext == CallScore

SpecScore == ScoreInit /\ [][ScoreNext]_vars

ScoreDone == call.fn = "score_catalog_row_against_item" /\ call.ret # <<>>

\* the score of a row for an item
RowScore(row, item) ==
    score_catalog_row_against_item(row, extract_item_search_features(item), weights)

\* a text none of whose characters is a letter, a digit, '-' or '+'
Degenerate(text) ==
    \A i \in 1..Len(text) : LowerChar(text[i]) \notin AsciiLower \cup Digits \cup {"-", "+"}

\* the same query without its degenerate text fields
WithoutDegenerate(item) ==
    [item EXCEPT !.brand = IF Degenerate(@) THEN <<>> ELSE @,
                 !.shape = IF Degenerate(@) THEN <<>> ELSE @,
                 !.type = IF Degenerate(@) THEN <<>> ELSE @,
                 !.item_type = IF Degenerate(@) THEN <<>> ELSE @]

\* the same query without item_type when a type, degenerate or not, stands
\* before it
WithoutHiddenType(item) ==
    IF item.type # <<>> THEN [item EXCEPT !.item_type = <<>>] ELSE item

\* C14 (as claimed): a row's score for a query with a degenerate text field
\* equals its score for the same query without that field.
C14_DegenerateOmitted ==
    ScoreDone => call.ret[1] = RowScore(call.row, WithoutDegenerate(call.item))

\* C14 (amended): a degenerate brand, shape or item_type, and a degenerate type
\* of a query that has no item_type, are left out of score and max_score: the
\* row's score equals its score for the query without them.  A type that is
\* not empty but holds no token still stands before item_type: the score then
\* equals that of the query with neither type nor item_type.
C14_DegenerateOmittedOrHiding ==
    ScoreDone =>
        call.ret[1] = RowScore(call.row, WithoutDegenerate(WithoutHiddenType(call.item)))

C14_Witness ==
    /\ ScoreDone
    /\ call.item = [Item_Clip EXCEPT !.shape = <<"*", "*">>]
    /\ call.row = Row_A2
    /\ call.ret = <<ROne>>

\* the numeric field a numeric-only item asks for, and the single values and
\* ranges of its unit class in the row's dimensions text
AskedField(item) == CHOOSE f \in NumericFields : item[f] # <<>>

ClassSingles(row, f) ==
    SinglesOf(parse_dimensions_with_units(row.dimensions).numbers,
              IF f = "capacity_ml" THEN "ml" ELSE "mm")

ClassRanges(row, f) ==
    RangesOf(parse_dimensions_with_units(row.dimensions).ranges,
             IF f = "capacity_ml" THEN "ml" ELSE "mm")

\* max(0, 1 - d / max(1, 0.05 * v)), d the distance from v to the nearest of xs;
\* 0 when xs is empty
Decay(v, xs) ==
    IF xs = <<>> THEN RZero
    ELSE LET d == MinOf({Abs(xs[i] - v) : i \in 1..Len(xs)})
             unit == Max2(One, v \div TolDen)
         IN  IF d >= unit THEN RZero ELSE Rat(unit - d, unit)

\* C18 (as claimed): the score of a single numeric field is 1.0 whenever the
\* row satisfies the '=' filter for v, and the decay otherwise.
C18_TolerantIsOne ==
    (ScoreDone /\ call.item \in NumericItems) =>
        LET f == AskedField(call.item)
            v == call.item[f][1]
        IN  call.ret[1] =
                IF value_matches_singles_or_ranges(v, ClassSingles(call.row, f),
                                                   ClassRanges(call.row, f))
                THEN ROne
                ELSE Decay(v, ClassSingles(call.row, f))

\* C18 (amended): the score of a single numeric field is
\* max(0, 1 - d / max(1, 0.05 * v)), d the distance from v to the nearest
\* single value of the class, and 0 when the row has none; it is 1.0 exactly
\* when a single value equals v.  The ranges of the row take no part.
C18_DecayOnly ==
    (ScoreDone /\ call.item \in NumericItems) =>
        LET f == AskedField(call.item)
            v == call.item[f][1]
            xs == ClassSingles(call.row, f)
        IN  /\ call.ret[1] = Decay(v, xs)
            /\ call.ret[1] = ROne <=> \E i \in 1..Len(xs) : xs[i] = v

\* length 61 against 'o/ 12 mm x 60 mm': within 5% of 60, scored 1 - 1/3.05
C18_Witness ==
    /\ ScoreDone
    /\ call.item = [NoItem EXCEPT !.length_mm = <<61 * One>>]
    /\ call.row = Row_D1
    /\ call.ret = <<Rat(205, 305)>>

\* the range a range-only item asks for and the unit class it reads
AskedRange(item) ==
    IF item.height_min_mm # <<>>
    THEN [lo |-> item.height_min_mm[1], hi |-> item.height_max_mm[1], cls |-> "mm"]
    ELSE [lo |-> item.capacity_min_ml[1], hi |-> item.capacity_max_ml[1], cls |-> "ml"]

\* intersection over union of [lo, hi] and r; 0 when the union has no width
IoU(lo, hi, r) ==
    IF Max2(hi, r[2]) - Min2(lo, r[1]) <= 0 THEN RZero
    ELSE Rat(Max2(0, Min2(hi, r[2]) - Max2(lo, r[1])), Max2(hi, r[2]) - Min2(lo, r[1]))

\* the distance from x to the interval [lo, hi]
Distance(x, lo, hi) == IF x < lo THEN lo - x ELSE IF x > hi THEN x - hi ELSE 0

\* 1 - d / max(1, 0.05 * (hi - lo)) cut at 0, d the least distance from a
\* single or a range boundary to [lo, hi]; 0 when the row has neither
EdgeProximity(lo, hi, xs, rs) ==
    LET pts == Range(xs) \cup UNION {{rs[i][1], rs[i][2]} : i \in 1..Len(rs)}
        unit == Max2(One, (hi - lo) \div TolDen)
    IN  IF pts = {} THEN RZero
        ELSE LET d == MinOf({Distance(x, lo, hi) : x \in pts})
             IN  IF d >= unit THEN RZero ELSE Rat(unit - d, unit)

\* C23: the score of a (min, max) height or capacity field is the larger of
\* the best IoU of the query range with a reference range and the edge
\* proximity, which decays linearly from 1 to 0 as the nearest reference
\* boundary or single moves from the query range to 5% of its width (1 at
\* least) away; it lies in [0, 1] and is 1.0 when a reference range equals
\* the query range.
C23_RangeScore ==
    (ScoreDone /\ call.item \in RangeItems) =>
        LET q == AskedRange(call.item)
            xs == SinglesOf(parse_dimensions_with_units(call.row.dimensions).numbers, q.cls)
            rs == RangesOf(parse_dimensions_with_units(call.row.dimensions).ranges, q.cls)
            edge == EdgeProximity(q.lo, q.hi, xs, rs)
        IN  /\ \E s \in {edge} \cup {IoU(q.lo, q.hi, rs[i]) : i \in 1..Len(rs)} :
                  /\ call.ret[1] = s
                  /\ ~RLess(s, edge)
                  /\ \A i \in 1..Len(rs) : ~RLess(s, IoU(q.lo, q.hi, rs[i]))
            /\ ~RLess(call.ret[1], RZero) /\ ~RLess(ROne, call.ret[1])
            /\ (\E i \in 1..Len(rs) : rs[i] = <<q.lo, q.hi>>) => call.ret[1] = ROne

\* height 55..70 against '50-72 mm': no boundary within reach, IoU 15/22
C23_Witness ==
    /\ ScoreDone
    /\ call.item = [NoItem EXCEPT !.height_min_mm = <<55 * One>>, !.height_max_mm = <<70 * One>>]
    /\ call.row = Row_A1
    /\ call.ret = <<Rat(15, 22)>>

\* height 73..113 against '50-72 mm': no overlap, the boundary 72 is 1 away of
\* the 2 allowed
C23_WitnessEdge ==
    /\ ScoreDone
    /\ call.item = [NoItem EXCEPT !.height_min_mm = <<73 * One>>, !.height_max_mm = <<113 * One>>]
    /\ call.row = Row_A1
    /\ call.ret = <<Rat(1, 2)>>

\* height 50..72 against '50-72 mm'
C23_WitnessEqual ==
    /\ ScoreDone
    /\ call.item = [NoItem EXCEPT !.height_min_mm = <<50 * One>>, !.height_max_mm = <<72 * One>>]
    /\ call.row = Row_A1
    /\ call.ret = <<ROne>>

\* ------------------------------------------------------------------------
\* loader/extract_item.py: _norm_text and _extract_item_code_from_page
\* Coordinates are in tenths of a point, so round(x, 1) leaves them as they
\* are.  "--" stands for the en dash U+2013, "u2010" for U+2010 and so on.  A
\* word is a record of the first
\* seven fields of a tuple of page.get_text("words").
\* ------------------------------------------------------------------------
\* the keys of _HYPHEN_MAP: U+2010, U+2011, U+2012, U+2013 and U+2212
HyphenVariants == {"u2010", "u2011", "u2012", "--", "u2212"}

\* variant of HYPHEN_MAP that knows the en dash only
HYPHEN_MAP_EnDashOnly(c) == IF c = "--" THEN "-" ELSE c

HYPHEN_MAP(c) == IF c \in HyphenVariants THEN "-" ELSE c

\* str.strip()
strip(t) ==
    LET a == SkipWhile(t, 1, SpaceChars)
        b == CHOOSE j \in 0..Len(t) :
                 /\ \A k \in (j + 1)..Len(t) : t[k] \in SpaceChars
                 /\ j = 0 \/ t[j] \notin SpaceChars
    IN  IF a > b THEN <<>> ELSE Slice(t, a, b + 1)

\* re.sub(r"\s*-\s*", "-", t) from position i on
RECURSIVE CollapseHyphens(_, _)
CollapseHyphens(t, i) ==
    IF i > Len(t) THEN <<>>
    ELSE LET j == SkipWhile(t, i, SpaceChars)
         IN  IF j <= Len(t) /\ t[j] = "-"
             THEN <<"-">> \o CollapseHyphens(t, SkipWhile(t, j + 1, SpaceChars))
             ELSE <<t[i]>> \o CollapseHyphens(t, i + 1)

norm_text(s) ==
    LET a == strip(s)
    IN  CollapseHyphens([k \in 1..Len(a) |-> HYPHEN_MAP(a[k])], 1)

\* \b\d{2}-\d{3}-\d{2}\b tried at position i of t
CodeAt(t, i) ==
    /\ i + 8 <= Len(t)
    /\ i = 1 \/ t[i - 1] \notin WordChars
    /\ \A k \in {0, 1, 3, 4, 5, 7, 8} : t[i + k] \in Digits
    /\ t[i + 2] = "-" /\ t[i + 6] = "-"
    /\ i + 9 > Len(t) \/ t[i + 9] \notin WordChars

\* _CODE_INLINE_RE.finditer(t) from position i on: (m.start(), m.end()) of each match
RECURSIVE CODE_INLINE_RE(_, _)
CODE_INLINE_RE(t, i) ==
    IF i > Len(t) THEN <<>>
    ELSE IF CodeAt(t, i) THEN <<[ms |-> i - 1, me |-> i + 8]>> \o CODE_INLINE_RE(t, i + 9)
    ELSE CODE_INLINE_RE(t, i + 1)

\* (x0 - prev_x1) > 1.5
GapThreshold == 15

\* list.sort(key): the words a stable sort leaves before w, then w, then the rest
RECURSIVE InsertWord(_, _, _)
InsertWord(sorted, w, byrow) ==
    IF sorted = <<>> THEN <<w>>
    ELSE LET h == Head(sorted)
             after == IF byrow THEN w.y0 < h.y0 \/ (w.y0 = h.y0 /\ w.x0 < h.x0)
                      ELSE w.x0 < h.x0
         IN  IF after THEN <<w>> \o sorted
             ELSE <<h>> \o InsertWord(Tail(sorted), w, byrow)

RECURSIVE SortWords(_, _)
SortWords(ws, byrow) ==
    IF ws = <<>> THEN <<>>
    ELSE InsertWord(SortWords(SubSeq(ws, 1, Len(ws) - 1), byrow), ws[Len(ws)], byrow)

\* the keys (block_no, line_no) in the order the dict lines first meets them
RECURSIVE LineKeys(_)
LineKeys(ws) ==
    IF ws = <<>> THEN <<>>
    ELSE LET rest == LineKeys(SubSeq(ws, 1, Len(ws) - 1))
             key == <<ws[Len(ws)].block_no, ws[Len(ws)].line_no>>
         IN  IF key \in Range(rest) THEN rest ELSE Append(rest, key)

BoxOf(w) == [x0 |-> w.x0, y0 |-> w.y0, x1 |-> w.x1, y1 |-> w.y1]

\* whether the loop inserts " " before the i-th word of the line
GapBefore(line_words, i) ==
    i > 1 /\ line_words[i].x0 - line_words[i - 1].x1 > GapThreshold

\* pieces, up to and including the i-th word's text
RECURSIVE Pieces(_, _)
Pieces(line_words, i) ==
    IF i = 0 THEN <<>>
    ELSE Pieces(line_words, i - 1)
            \o (IF GapBefore(line_words, i) THEN <<" ">> ELSE <<>>)
            \o norm_text(line_words[i].txt)

\* char_map: (start, end, bbox) of each word, offsets counted in "".join(pieces)
CharMap(line_words) ==
    [i \in 1..Len(line_words) |->
        LET e == Len(Pieces(line_words, i))
        IN  [s |-> e - Len(norm_text(line_words[i].txt)), e |-> e, bb |-> BoxOf(line_words[i])]]

\* the loop over char_map for a match (ms, me), with its continue and its break
RECURSIVE HitBoxes(_, _, _, _)
HitBoxes(char_map, i, ms, me) ==
    IF i > Len(char_map) THEN <<>>
    ELSE IF char_map[i].e <= ms THEN HitBoxes(char_map, i + 1, ms, me)
    ELSE IF char_map[i].s >= me THEN <<>>
    ELSE <<char_map[i].bb>> \o HitBoxes(char_map, i + 1, ms, me)

MaxOf(S) == CHOOSE x \in S : \A y \in S : y <= x

\* (min x0, min y0, max x1, max y1) of some boxes
UnionBox(boxes) ==
    [x0 |-> MinOf({b.x0 : b \in boxes}), y0 |-> MinOf({b.y0 : b \in boxes}),
     x1 |-> MaxOf({b.x1 : b \in boxes}), y1 |-> MaxOf({b.y1 : b \in boxes})]

\* the anchors one line appends
LineAnchors(line_words) ==
    LET char_map == CharMap(line_words)
        line_text == norm_text(Pieces(line_words, Len(line_words)))
        found == CODE_INLINE_RE(line_text, 1)
    IN  Flatten([k \in 1..Len(found) |->
            LET hit_boxes == HitBoxes(char_map, 1, found[k].ms, found[k].me)
            IN  IF hit_boxes = <<>> THEN <<>>
                ELSE <<[code |-> Slice(line_text, found[k].ms + 1, found[k].me + 1),
                        bbox |-> UnionBox(Range(hit_boxes))]>>])

\* round(v, 1) of a coordinate held in units of which per make 0.1: the
\* nearest multiple of per (no coordinate drawn lies halfway)
round1(v, per) == ((2 * v + per) \div (2 * per)) * per

\* key = (code, round(bx[0], 1), round(bx[1], 1), round(bx[2], 1), round(bx[3], 1))
KeyOf(a, per) ==
    <<a.code, round1(a.bbox.x0, per), round1(a.bbox.y0, per),
      round1(a.bbox.x1, per), round1(a.bbox.y1, per)>>

\* variant: the key is the code alone
RECURSIVE uniq_ByCode(_, _)
uniq_ByCode(anchors, per) ==
    IF anchors = <<>> THEN <<>>
    ELSE LET rest == uniq_ByCode(SubSeq(anchors, 1, Len(anchors) - 1), per)
             a == anchors[Len(anchors)]
             at == {i \in DOMAIN rest : rest[i].code = a.code}
         IN  IF at = {} THEN Append(rest, a)
             ELSE [rest EXCEPT ![CHOOSE i \in at : TRUE] = a]

\* uniq[key] = a for each anchor, then list(uniq.values()): a key keeps the
\* place of its first anchor and the value of its last
RECURSIVE uniq(_, _)
uniq(anchors, per) ==
    IF anchors = <<>> THEN <<>>
    ELSE LET rest == uniq(SubSeq(anchors, 1, Len(anchors) - 1), per)
             a == anchors[Len(anchors)]
             at == {i \in DOMAIN rest : KeyOf(rest[i], per) = KeyOf(a, per)}
         IN  IF at = {} THEN Append(rest, a)
             ELSE [rest EXCEPT ![CHOOSE i \in at : TRUE] = a]

\* the pages drawn hold coordinates in tenths, one unit to 0.1
Dedup_KeepAll(anchors) == anchors

Dedup(anchors) == uniq(anchors, 1)

WordsOfLine(ws, key) ==
    LET OnLine(w) == <<w.block_no, w.line_no>> = key
    IN  SortWords(SelectSeq(ws, OnLine), FALSE)

extract_item_code_from_page(page_words) ==
    LET words == SortWords(page_words, TRUE)
        keys == LineKeys(words)
    IN  Dedup(Flatten([k \in 1..Len(keys) |-> LineAnchors(WordsOfLine(words, keys[k]))]))

\* ------------------------------------------------------------------------
\* _extract_item_code_from_page applied to drawn pages: up to MaxWords words of
\* WordTexts set from the left edge, each touching the word before it or set
\* off by a wide gap; from word number brk on they form a second line, printed
\* below the first or over it.
\* ------------------------------------------------------------------------
MaxWords == 3

WordTexts == {<<"1", "2", "-", "3", "4", "5", "-", "6", "7">>, <<"1", "2", "-", "3", "4", "5">>, <<"-">>,
              <<"6", "7">>, <<"--", "6", "7">>, <<"x">>}

\* the page: characters 5.0 wide, a wide gap of 3.0, lines 10.0 high starting at
\* x = 10.0 and y = 100.0, the second line 20.0 lower; an 'x' is 2.0 taller
PageGeometry ==
    [char_width |-> 50, wide_gap |-> 30, left |-> 100, top |-> 1000,
     height |-> 100, step |-> 200, tall |-> 20]

\* the word records of a page
RECURSIVE Layout(_, _, _, _, _)
Layout(txts, gaps, brk, over, i) ==
    IF i = 0 THEN <<>>
    ELSE LET before == Layout(txts, gaps, brk, over, i - 1)
             second == brk > 0 /\ i >= brk
             x0 == IF i = 1 \/ i = brk THEN PageGeometry.left
                   ELSE before[i - 1].x1 + gaps[i - 1]
             top == IF second /\ ~over THEN PageGeometry.top + PageGeometry.step ELSE PageGeometry.top
             tall == IF txts[i] = <<"x">> THEN PageGeometry.tall ELSE 0
         IN  Append(before,
                    [x0 |-> x0, y0 |-> top - tall, x1 |-> x0 + PageGeometry.char_width * Len(txts[i]),
                     y1 |-> top + PageGeometry.height, txt |-> txts[i],
                     block_no |-> 0, line_no |-> IF second THEN 1 ELSE 0])

AnchorInit ==
    /\ \E n \in 1..MaxWords :
          \E txts \in [1..n -> WordTexts], gaps \in [1..(n - 1) -> {0, PageGeometry.wide_gap}],
             brk \in {0} \cup 2..n, over \in BOOLEAN :
              call = [fn |-> "_extract_item_code_from_page",
                      words |-> Layout(txts, gaps, brk, over, n), ret |-> <<>>]
    /\ NoMatchState
    /\ NoDbState

CallExtractCodes ==
    /\ call.fn = "_extract_item_code_from_page"
    /\ call.ret = <<>>
    /\ call' = [call EXCEPT !.ret = <<extract_item_code_from_page(call.words)>>]
    /\ UNCHANGED <<matchVars, dbVars>>

AnchorNext == CallExtractCodes

SpecAnchor == AnchorInit /\ [][AnchorNext]_vars

AnchorDone == call.fn = "_extract_item_code_from_page" /\ call.ret # <<>>

\* the characters of a line's gap-aware text, each with the number of the word
\* it comes from (0 for an inserted space)
RECURSIVE TaggedPieces(_, _)
TaggedPieces(line_words, i) ==
    IF i = 0 THEN <<>>
    ELSE LET t == norm_text(line_words[i].txt)
         IN  TaggedPieces(line_words, i - 1)
                \o (IF GapBefore(line_words, i) THEN <<[c |-> " ", w |-> 0]>> ELSE <<>>)
                \o [k \in 1..Len(t) |-> [c |-> t[k], w |-> i]]

\* the spaces around hyphens dropped, every character left keeping its word
RECURSIVE CollapseTagged(_, _)
CollapseTagged(t, i) ==
    IF i > Len(t) THEN <<>>
    ELSE LET IsSpace(k) == k <= Len(t) /\ t[k].c \in SpaceChars
             j == CHOOSE j \in i..(Len(t) + 1) :
                      (\A k \in i..(j - 1) : IsSpace(k)) /\ ~IsSpace(j)
         IN  IF j <= Len(t) /\ t[j].c = "-"
             THEN LET e == CHOOSE e \in (j + 1)..(Len(t) + 1) :
                              (\A k \in (j + 1)..(e - 1) : IsSpace(k)) /\ ~IsSpace(e)
                  IN  <<t[j]>> \o CollapseTagged(t, e)
             ELSE <<t[i]>> \o CollapseTagged(t, i + 1)

\* for each code of the line: its text and the union of the boxes of the words
\* its characters come from
CodesOfLine(line_words) ==
    LET tagged == CollapseTagged(TaggedPieces(line_words, Len(line_words)), 1)
        text == [k \in 1..Len(tagged) |-> tagged[k].c]
        found == CODE_INLINE_RE(text, 1)
    IN  {[code |-> Slice(text, found[k].ms + 1, found[k].me + 1),
          bbox |-> UnionBox({BoxOf(line_words[tagged[p].w]) :
                                p \in (found[k].ms + 1)..found[k].me})] :
            k \in 1..Len(found)}

CodesOfPage(page_words) ==
    UNION {CodesOfLine(WordsOfLine(page_words, key)) :
              key \in {<<page_words[i].block_no, page_words[i].line_no>> : i \in 1..Len(page_words)}}

\* C4: for every line whose gap-aware text contains a code NN-NNN-NN, exactly
\* one anchor is returned for the occurrence, and its bbox is the union of the
\* boxes of the words that give characters to the code, no word left out and no
\* other word included; nothing else is returned.
C4_AnchorBBox ==
    AnchorDone =>
        /\ \A a \in CodesOfPage(call.words) :
              Cardinality({k \in 1..Len(call.ret[1]) : call.ret[1][k] = a}) = 1
        /\ Range(call.ret[1]) \subseteq CodesOfPage(call.words)

\* ------------------------------------------------------------------------
\* loader/extract_item.py: the grid of a page and the fields of a cell.
\* A span is a record of its text, its bbox and its font size, in tenths of a
\* point like the coordinates.  "ldq" stands for U+201C and "rdq" for U+201D.
\* ------------------------------------------------------------------------
isalpha(c) == c \in Range(LowerChars) \cup Range(UpperChars) \cup {"o/", "O/"}

isupper(c) == c \in Range(UpperChars) \cup {"O/"}

\* str.upper() of one character
UpperChar(c) ==
    IF c = "o/" THEN "O/"
    ELSE IF \E i \in 1..Len(LowerChars) : LowerChars[i] = c
    THEN UpperChars[CHOOSE i \in 1..Len(LowerChars) : LowerChars[i] = c]
    ELSE c

upper(t) == [i \in 1..Len(t) |-> UpperChar(t[i])]

\* sum(P(ch) for ch in t)
CountIn(t, S) == Cardinality({i \in 1..Len(t) : t[i] \in S})

AlphaChars == Range(LowerChars) \cup Range(UpperChars) \cup {"o/", "O/"}

\* list.sort(key): a stable sort, before[a, b] meaning key(a) < key(b)
StableSort(s, before) ==
    LET Rank(i) == Cardinality({j \in 1..Len(s) :
                        before[s[j], s[i]] \/ (~before[s[i], s[j]] /\ j < i)}) + 1
    IN  [p \in 1..Len(s) |-> s[CHOOSE i \in 1..Len(s) : Rank(i) = p]]

\* sorted(vals) of numbers
Ascending(vals) == StableSort(vals, [a, b \in Range(vals) |-> a < b])

\* spans.sort(key=lambda s: (s["bbox"][1], s["bbox"][0]))
TopToBottom(spans) ==
    StableSort(spans, [a, b \in Range(spans) |->
                          a.bbox.y0 < b.bbox.y0
                          \/ (a.bbox.y0 = b.bbox.y0 /\ a.bbox.x0 < b.bbox.x0)])

\* spans.sort(key=lambda s: s["bbox"][0])
LeftToRight(spans) == StableSort(spans, [a, b \in Range(spans) |-> a.bbox.x0 < b.bbox.x0])

\* re.sub(r"\s+", " ", t) from position i on
RECURSIVE CollapseSpaces(_, _)
CollapseSpaces(t, i) ==
    IF i > Len(t) THEN <<>>
    ELSE IF t[i] \in SpaceChars
    THEN <<" ">> \o CollapseSpaces(t, SkipWhile(t, i, SpaceChars))
    ELSE <<t[i]>> \o CollapseSpaces(t, i + 1)

\* (b[0] + b[2]) * 0.5 and (b[1] + b[3]) * 0.5
x_center(b) == (b.x0 + b.x1) \div 2

y_center(b) == (b.y0 + b.y1) \div 2

\* the clusters of sorted values: v joins the last cluster when it is within tol
\* of the last value added to it
\* variant: v joins the last cluster when it is within tol of its first value
RECURSIVE Chain_FromFirst(_, _)
Chain_FromFirst(sorted_vals, tol) ==
    IF sorted_vals = <<>> THEN <<>>
    ELSE LET before == Chain_FromFirst(SubSeq(sorted_vals, 1, Len(sorted_vals) - 1), tol)
             v == sorted_vals[Len(sorted_vals)]
         IN  IF before = <<>> THEN <<<<v>>>>
             ELSE IF Abs(v - before[Len(before)][1]) <= tol
             THEN [before EXCEPT ![Len(before)] = Append(@, v)]
             ELSE Append(before, <<v>>)

RECURSIVE Chain(_, _)
Chain(sorted_vals, tol) ==
    IF sorted_vals = <<>> THEN <<>>
    ELSE LET before == Chain(SubSeq(sorted_vals, 1, Len(sorted_vals) - 1), tol)
             v == sorted_vals[Len(sorted_vals)]
         IN  IF before = <<>> THEN <<<<v>>>>
             ELSE IF Abs(v - before[Len(before)][Len(before[Len(before)])]) <= tol
             THEN [before EXCEPT ![Len(before)] = Append(@, v)]
             ELSE Append(before, <<v>>)

RECURSIVE SumOf(_)
SumOf(c) == IF c = <<>> THEN 0 ELSE c[1] + SumOf(Tail(c))

\* sum(c) / len(c) of every cluster
MeansOf(clusters) == [k \in 1..Len(clusters) |-> SumOf(clusters[k]) \div Len(clusters[k])]

cluster_positions(vals, tol) ==
    MeansOf(Chain(Ascending(vals), tol))

\* variant of Bounds: the outer boundaries set on the outer centers
Bounds_OuterCenters(lo, centers, hi) ==
    <<centers[1]>> \o [k \in 1..(Len(centers) - 1) |-> (centers[k] + centers[k + 1]) \div 2]
                  \o <<centers[Len(centers)]>>

\* [lo] + the midpoints of adjacent centers + [hi]
Bounds(lo, centers, hi) ==
    <<lo>> \o [k \in 1..(Len(centers) - 1) |-> (centers[k] + centers[k + 1]) \div 2] \o <<hi>>

\* variant: the last center that is not to the right of val (the first if none)
nearest_index_LeftCenter(val, centers) ==
    CHOOSE i \in 1..Len(centers) :
        /\ i = 1 \/ centers[i] <= val
        /\ \A j \in (i + 1)..Len(centers) : centers[j] > val

\* min(range(len(centers)), key=...): the first index at the least distance,
\* counted from 1
nearest_index(val, centers) ==
    CHOOSE i \in 1..Len(centers) :
        /\ \A j \in 1..Len(centers) : Abs(val - centers[i]) <= Abs(val - centers[j])
        /\ \A j \in 1..(i - 1) : Abs(val - centers[j]) > Abs(val - centers[i])

spans_in_rect(spans, rect) ==
    LET Inside(s) == /\ s.bbox.x0 >= rect.x0 /\ s.bbox.x1 <= rect.x1
                     /\ s.bbox.y0 >= rect.y0 /\ s.bbox.y1 <= rect.y1
    IN  SelectSeq(spans, Inside)

\* the spans of page.get_text("dict"), their text normalised, the empty ones dropped
collect_spans(page_spans) ==
    LET Normed(s) == [text |-> norm_text(s.text), bbox |-> s.bbox, size |-> s.size]
        NonEmpty(s) == s.text # <<>>
    IN  SelectSeq([k \in 1..Len(page_spans) |-> Normed(page_spans[k])], NonEmpty)

\* the texts of a list without the repeats, in the order of first appearance
RECURSIVE Uniq(_)
Uniq(ts) ==
    IF ts = <<>> THEN <<>>
    ELSE LET rest == Uniq(SubSeq(ts, 1, Len(ts) - 1))
         IN  IF ts[Len(ts)] \in Range(rest) THEN rest ELSE Append(rest, ts[Len(ts)])

SecondOrOnly(lines) ==
    IF Len(lines) >= 2 THEN lines[2] ELSE IF lines # <<>> THEN lines[1] ELSE <<>>

TopLimit == 1200

extract_category_english_from_page(spans) ==
    LET IsTop(s) == s.bbox.y0 < TopLimit /\ \E i \in 1..Len(s.text) : isalpha(s.text[i])
        NoDigit(s) == \A i \in 1..Len(s.text) : s.text[i] \notin Digits
        top == TopToBottom(SelectSeq(spans, IsTop))
        title_spans == SelectSeq(top, NoDigit)
    IN  SecondOrOnly(Uniq([k \in 1..Len(title_spans) |-> title_spans[k].text]))

\* \b between t[p - 1] and t[p]
WordBoundary(t, p) ==
    (p > 1 /\ t[p - 1] \in WordChars) # (p <= Len(t) /\ t[p] \in WordChars)

Txt_inch == <<"i", "n", "c", "h">>

\* re.search(r"(cm|mm|o/|\"|inch)\b", t)
UnitAtWordEnd(t) ==
    \E i \in 1..Len(t), u \in {Txt_cm, Txt_mm, <<"o/">>, <<"\"">>, Txt_inch} :
        StartsAt(t, i, u) /\ WordBoundary(t, i + Len(u))

MeasurementOf(txt, t) ==
    \/ \E u \in {Txt_cm, Txt_mm, Txt_ml, <<"v">>, <<"o/">>, <<"\"">>, Txt_inch} : Contains(t, u)
    \/ (\E i \in 1..Len(t) : t[i] \in Digits) /\ UnitAtWordEnd(t)
    \/ CountIn(txt, Digits) > 0 /\ CountIn(txt, AlphaChars) = 0

looks_like_measurement(txt) == MeasurementOf(txt, lower(txt))

\* _CODE_INLINE_RE.fullmatch(txt)
FullCode(txt) == Len(txt) = 9 /\ CodeAt(txt, 1)

\* str.isdigit()
isdigit(t) == t # <<>> /\ \A i \in 1..Len(t) : t[i] \in Digits

Txt_www == <<"W", "W", "W", ".">>
Txt_http == <<"H", "T", "T", "P">>

looks_like_author(txt) ==
    /\ txt # <<>>
    /\ ~FullCode(txt)
    /\ ~Contains(upper(txt), Txt_www) /\ ~Contains(upper(txt), Txt_http)
    /\ ~looks_like_measurement(txt)
    /\ ~(isdigit(strip(txt)) /\ Len(strip(txt)) <= 4)

x_overlap(a, b, tol) == ~(a.x1 < b.x0 - tol \/ b.x1 < a.x0 - tol)

\* MAX_DY_ABOVE, MAX_DY_BELOW, the tol of _x_overlap and LINE_TOL of _extract_item_author
AuthorWindow == [above |-> 550, below |-> 60, x_tol |-> 60, line_tol |-> 30]

\* whether the first loop of _extract_item_author appends the span to near
InWindow(s, code_bbox) ==
    /\ looks_like_author(strip(s.text))
    /\ ~(s.bbox.y1 > code_bbox.y0 + AuthorWindow.below)
    /\ ~(s.bbox.y1 < code_bbox.y0 - AuthorWindow.above)
    /\ x_overlap(s.bbox, code_bbox, AuthorWindow.x_tol)

\* score = size * 2.0 + uppercase_bonus - dy * 0.10, in hundredths of a point
WordScore(txt, size, dy) ==
    20 * size
    + (IF 5 * CountIn(txt, Range(UpperChars) \cup {"O/"}) > 4 * Max2(1, CountIn(txt, AlphaChars))
       THEN 80 ELSE 0)
    - dy

Near(cell_spans, code_bbox) ==
    LET Kept(s) == InWindow(s, code_bbox)
        kept == SelectSeq(cell_spans, Kept)
    IN  [k \in 1..Len(kept) |->
            [score |-> WordScore(strip(kept[k].text), kept[k].size,
                                 Max2(0, code_bbox.y0 - kept[k].bbox.y1)),
             s |-> kept[k]]]

\* the key (-size, -y0) of the fallback sort
FallbackBefore_HigherFirst(a, b) ==
    a.size > b.size \/ (a.size = b.size /\ a.bbox.y0 < b.bbox.y0)

FallbackBefore(a, b) ==
    a.size > b.size \/ (a.size = b.size /\ a.bbox.y0 > b.bbox.y0)

\* the spans the fallback collects in candidates
FallbackCandidates(cell_spans, code_bbox) ==
    LET Above(s) == /\ s.bbox.y1 <= y_center(code_bbox) + 20
                    /\ looks_like_author(strip(s.text))
    IN  SelectSeq(cell_spans, Above)

FirstText(cands) == IF cands = <<>> THEN <<>> ELSE strip(cands[1].text)

\* candidates.sort(key=...)
SortFallback(cands) ==
    StableSort(cands, [a, b \in Range(cands) |-> FallbackBefore(a, b)])

AuthorFallback(cell_spans, code_bbox) ==
    FirstText(SortFallback(FallbackCandidates(cell_spans, code_bbox)))

\* the spans of near on the line of the best one, joined left to right
AuthorLine(near) ==
    LET OnLine(n) == Abs(n.s.bbox.y0 - near[1].s.bbox.y0) <= AuthorWindow.line_tol
        on_line == SelectSeq(near, OnLine)
        same_line == StableSort(on_line, [a, b \in Range(on_line) |-> a.s.bbox.x0 < b.s.bbox.x0])
    IN  strip(CollapseSpaces(strip(join([k \in 1..Len(same_line) |-> strip(same_line[k].s.text)])), 1))

AuthorOf(near, cell_spans, code_bbox) ==
    IF near = <<>> THEN AuthorFallback(cell_spans, code_bbox)
    ELSE AuthorLine(StableSort(near, [a, b \in Range(near) |-> a.score > b.score]))

extract_item_author(cell_spans, code_bbox) ==
    AuthorOf(Near(cell_spans, code_bbox), cell_spans, code_bbox)

HasDimensionMark(txt) ==
    \/ \E u \in {Txt_cm, Txt_mm, <<"O/">>, <<"\"">>, <<"ldq">>, <<"rdq">>} : Contains(txt, u)
    \/ \E i \in 1..Len(txt) : txt[i] \in Digits

extract_item_dimension(cell_spans, code_bbox) ==
    LET IsPart(s) == /\ ~(s.bbox.x0 < code_bbox.x1 - 10)
                     /\ Min2(code_bbox.y1, s.bbox.y1) - Max2(code_bbox.y0, s.bbox.y0) > 0
                     /\ HasDimensionMark(s.text)
        parts == LeftToRight(SelectSeq(cell_spans, IsPart))
    IN  CollapseSpaces(strip(join([k \in 1..Len(parts) |-> parts[k].text])), 1)

\* s["size"] <= 7.0 and abs(y - last_y) <= 10
SmallSize == 70
LineGap == 100
MaxLines == 4

\* the spans _extract_item_description_english keeps in small, sorted
SmallSpans(cell_spans) ==
    LET IsSmall(s) == /\ s.size <= SmallSize
                      /\ \E i \in 1..Len(s.text) : isalpha(s.text[i])
                      /\ \A i \in 1..Len(s.text) : s.text[i] \notin Digits
                      /\ ~Contains(upper(s.text), Txt_www)
    IN  TopToBottom(SelectSeq(cell_spans, IsSmall))

\* the loop over small from its i-th span on: lines when it ends
RECURSIVE GroupLines(_, _, _, _)
GroupLines(small, i, lines, last_y) ==
    IF i > Len(small) THEN lines
    ELSE IF last_y = <<>> \/ Abs(small[i].bbox.y0 - last_y[1]) <= LineGap
    THEN IF Len(lines) + 1 = MaxLines THEN Append(lines, small[i].text)
         ELSE GroupLines(small, i + 1, Append(lines, small[i].text), <<small[i].bbox.y0>>)
    ELSE GroupLines(small, i + 1, <<small[i].text>>, <<small[i].bbox.y0>>)

extract_item_description_english(cell_spans) ==
    SecondOrOnly(GroupLines(SmallSpans(cell_spans), 1, <<>>, <<>>))

\* tol of the columns and of the rows, and pad
GridTolerance == [col |-> 600, row |-> 250, pad |-> 60]

\* page.get_text("words") of a page whose spans hold one word each, every span a
\* line of its own
WordsOfPage(page) ==
    [k \in 1..Len(page.spans) |->
        [x0 |-> page.spans[k].bbox.x0, y0 |-> page.spans[k].bbox.y0,
         x1 |-> page.spans[k].bbox.x1, y1 |-> page.spans[k].bbox.y1,
         txt |-> page.spans[k].text, block_no |-> k - 1, line_no |-> 0]]

\* col_centers, row_centers, x_bounds and y_bounds
Grid(col_centers, row_centers, rect) ==
    [col_centers |-> col_centers, row_centers |-> row_centers,
     x_bounds |-> Bounds(rect.x0, col_centers, rect.x1),
     y_bounds |-> Bounds(rect.y0, row_centers, rect.y1)]

GridOf(items_code, rect) ==
    Grid(Ascending(cluster_positions([k \in 1..Len(items_code) |-> x_center(items_code[k].bbox)],
                                     GridTolerance.col)),
         Ascending(cluster_positions([k \in 1..Len(items_code) |-> y_center(items_code[k].bbox)],
                                     GridTolerance.row)),
         rect)

\* the padded rect of the cell (row_i, col_i)
PaddedCell(grid, col_i, row_i) ==
    [x0 |-> grid.x_bounds[col_i] + GridTolerance.pad, y0 |-> grid.y_bounds[row_i] + GridTolerance.pad,
     x1 |-> grid.x_bounds[col_i + 1] - GridTolerance.pad,
     y1 |-> grid.y_bounds[row_i + 1] - GridTolerance.pad]

CellRect(grid, cb) ==
    PaddedCell(grid, nearest_index(x_center(cb), grid.col_centers),
               nearest_index(y_center(cb), grid.row_centers))

CatalogItem(anchor, category, cell_sp) ==
    [code |-> anchor.code, category |-> category,
     author |-> extract_item_author(cell_sp, anchor.bbox),
     small_description |-> extract_item_description_english(cell_sp),
     dimension |-> extract_item_dimension(cell_sp, anchor.bbox),
     bbox |-> anchor.bbox]

\* the loop over items_code
ItemsOf(items_code, spans, grid, category) ==
    [k \in 1..Len(items_code) |->
        CatalogItem(items_code[k], category,
                    spans_in_rect(spans, CellRect(grid, items_code[k].bbox)))]

\* (row_i, col_i) of every element of items_code, counted from 1
CellsOf(items_code, grid) ==
    [k \in 1..Len(items_code) |->
        [row_i |-> nearest_index(y_center(items_code[k].bbox), grid.row_centers),
         col_i |-> nearest_index(x_center(items_code[k].bbox), grid.col_centers)]]

WithGrid(items_code, spans, grid) ==
    [items |-> ItemsOf(items_code, spans, grid, extract_category_english_from_page(spans)),
     grid |-> <<grid>>,
     cells |-> CellsOf(items_code, grid)]

\* the list returned, with the grid the call built (none when it returns
\* early) and the cell it gave to each anchor
ExtractFrom(items_code, spans, rect) ==
    IF items_code = <<>> THEN [items |-> <<>>, grid |-> <<>>, cells |-> <<>>]
    ELSE WithGrid(items_code, spans, GridOf(items_code, rect))

extract_items_from_page(page) ==
    ExtractFrom(extract_item_code_from_page(WordsOfPage(page)), collect_spans(page.spans), page.rect)

\* ------------------------------------------------------------------------
\* extract_items_from_page applied to drawn pages: up to MaxAnchors codes set
\* on the slots of a 3 x 3 lattice whose first two columns (rows) lie within
\* the column (row) tolerance of each other, the first code with or without
\* an author above it, a dimension beside it and two small description lines
\* below it, the page with or without two title lines, the first code printed
\* once or twice (Decors).  Slot coordinates are multiples of 12.0, so that the means
\* of up to four of them and the midpoints of the means are exact.
\* ------------------------------------------------------------------------
MaxAnchors == 3

PageRect == [x0 |-> 0, y0 |-> 0, x1 |-> 6000, y1 |-> 8400]

SlotGeometry ==
    [cols |-> <<1200, 1680, 3600>>, rows |-> <<1200, 1440, 4800>>, width |-> 240, height |-> 120]

AllSlots == <<<<1, 1>>, <<2, 1>>, <<3, 1>>, <<1, 2>>, <<2, 2>>, <<3, 2>>, <<1, 3>>, <<2, 3>>, <<3, 3>>>>

SlotBox(slot) ==
    [x0 |-> SlotGeometry.cols[slot[1]], y0 |-> SlotGeometry.rows[slot[2]],
     x1 |-> SlotGeometry.cols[slot[1]] + SlotGeometry.width,
     y1 |-> SlotGeometry.rows[slot[2]] + SlotGeometry.height]

Txt_code == <<"1", "2", "-", "3", "4", "5", "-", "6", "7">>

Span(text, size, x0, y0, x1, y1) ==
    [text |-> text, size |-> size, bbox |-> [x0 |-> x0, y0 |-> y0, x1 |-> x1, y1 |-> y1]]

\* what a page may hold besides its codes
Decors ==
    {{}, {"titles"}, {"author"}, {"dimension"}, {"description"}, {"doubled"},
     {"titles", "author", "dimension", "description"},
     {"author", "dimension", "description", "doubled"}}

TitleSpans ==
    <<Span(<<"Z", "A", "N", "G", "E", "N">>, 140, 600, 300, 2400, 440),
      Span(<<"F", "O", "R", "C", "E", "P", "S">>, 140, 600, 500, 2400, 640)>>

CodeSpan(b) == Span(Txt_code, 90, b.x0, b.y0, b.x1, b.y1)

\* the spans around the code at b
Decorated(b, decor) ==
    (IF "author" \in decor
     THEN <<Span(<<"B", "U", "C", "K">>, 90, b.x0, b.y0 - 150, b.x0 + 200, b.y0 - 50)>> ELSE <<>>)
    \o <<CodeSpan(b)>>
    \o (IF "doubled" \in decor THEN <<CodeSpan(b)>> ELSE <<>>)
    \o (IF "dimension" \in decor
        THEN <<Span(<<"1", "8", "c", "m">>, 80, b.x1 + 20, b.y0, b.x1 + 220, b.y1)>> ELSE <<>>)
    \o (IF "description" \in decor
        THEN <<Span(<<"f", "e", "i", "l", "e">>, 60, b.x0, b.y1 + 20, b.x0 + 200, b.y1 + 80),
               Span(<<"f", "i", "l", "e">>, 60, b.x0, b.y1 + 90, b.x0 + 200, b.y1 + 150)>>
        ELSE <<>>)

PageOf(slots, decor) ==
    [rect |-> PageRect,
     spans |-> (IF "titles" \in decor THEN TitleSpans ELSE <<>>)
               \o Flatten([k \in 1..Len(slots) |->
                      IF k = 1 THEN Decorated(SlotBox(slots[k]), decor)
                      ELSE <<CodeSpan(SlotBox(slots[k]))>>])]

\* a row of codes whose first four stand 60.0 apart, one column by chaining,
\* and whose fifth stands 72.0 after the fourth
ChainBoxes ==
    [k \in 1..5 |->
        [x0 |-> IF k = 5 THEN 3720 ELSE 600 + 600 * k, y0 |-> 1200,
         x1 |-> IF k = 5 THEN 3960 ELSE 840 + 600 * k, y1 |-> 1320]]

ChainPage(S) ==
    LET Chosen(b) == b \in S
        boxes == SelectSeq(ChainBoxes, Chosen)
    IN  [rect |-> PageRect, spans |-> [k \in 1..Len(boxes) |-> CodeSpan(boxes[k])]]

PageInit ==
    /\ \/ \E S \in SUBSET Range(AllSlots), decor \in Decors :
             /\ Cardinality(S) <= MaxAnchors
             /\ LET Chosen(slot) == slot \in S
                IN  call = [fn |-> "extract_items_from_page",
                            page |-> PageOf(SelectSeq(AllSlots, Chosen), decor),
                            grid |-> <<>>, cells |-> <<>>, ret |-> <<>>]
       \/ \E S \in SUBSET Range(ChainBoxes) :
             call = [fn |-> "extract_items_from_page", page |-> ChainPage(S),
                     grid |-> <<>>, cells |-> <<>>, ret |-> <<>>]
    /\ NoMatchState
    /\ NoDbState

CallExtractItems ==
    /\ call.fn = "extract_items_from_page"
    /\ call.ret = <<>>
    /\ \E out \in {extract_items_from_page(call.page)} :
          call' = [call EXCEPT !.grid = out.grid, !.cells = out.cells, !.ret = <<out.items>>]
    /\ UNCHANGED <<matchVars, dbVars>>

PageNext == CallExtractItems

SpecPage == PageInit /\ [][PageNext]_vars

PageDone == call.fn = "extract_items_from_page" /\ call.ret # <<>>

\* ------------------------------------------------------------------------
\* Properties of extract_items_from_page
\* ------------------------------------------------------------------------
\* the number of groups a sorted chain of values breaks into: one more than the
\* number of adjacent values farther apart than tol
ClusterCount(vals, tol) ==
    LET sorted_vals == Ascending(vals)
    IN  1 + Cardinality({i \in 1..(Len(vals) - 1) : sorted_vals[i + 1] - sorted_vals[i] > tol})

StrictlyIncreasing(bs) == \A i \in 1..(Len(bs) - 1) : bs[i] < bs[i + 1]

\* the intervals [bs[i], bs[i + 1]) that hold x
IntervalsOf(bs, x) == {i \in 1..(Len(bs) - 1) : bs[i] <= x /\ x < bs[i + 1]}

\* points of the page: a lattice 60.0 wide, and the boundaries themselves
ProbePoints(lo, hi, bs) ==
    {lo + 600 * k : k \in 0..((hi - lo - 1) \div 600)} \cup {b \in Range(bs) : lo <= b /\ b < hi}

PartitionsPage(bs, lo, hi, n) ==
    /\ Len(bs) = n + 1
    /\ bs[1] = lo /\ bs[Len(bs)] = hi
    /\ StrictlyIncreasing(bs)
    /\ \A x \in ProbePoints(lo, hi, bs) : Cardinality(IntervalsOf(bs, x)) = 1

\* C11: when the page has anchors, x_bounds (y_bounds) holds one boundary more
\* than there are column (row) clusters of anchor centers, starts and ends at
\* the page edges and is strictly increasing, so every point of the page lies
\* in exactly one column interval and one row interval.
C11_GridPartition ==
    PageDone /\ call.ret[1] # <<>> =>
        /\ call.grid # <<>>
        /\ PartitionsPage(call.grid[1].x_bounds, call.page.rect.x0, call.page.rect.x1,
                          ClusterCount([k \in 1..Len(call.ret[1]) |-> x_center(call.ret[1][k].bbox)],
                                       GridTolerance.col))
        /\ PartitionsPage(call.grid[1].y_bounds, call.page.rect.y0, call.page.rect.y1,
                          ClusterCount([k \in 1..Len(call.ret[1]) |-> y_center(call.ret[1][k].bbox)],
                                       GridTolerance.row))

\* a page of three anchors in two column clusters and two row clusters
C11_Witness ==
    /\ PageDone
    /\ Len(call.ret[1]) = 3
    /\ call.grid # <<>>
    /\ Len(call.grid[1].x_bounds) = 3
    /\ Len(call.grid[1].y_bounds) = 3

\* C24: every anchor is given one cell (row_i, col_i): the column and the row
\* whose centers are nearest to the anchor's center, and the bounds of that
\* cell, before padding, contain the anchor's center, also when the anchor is
\* nearer to the center of the next cluster than to the center of the cluster
\* its position was chained into.
Holds(bs, i, x) == bs[i] <= x /\ x <= bs[i + 1]

IsNearest(centers, i, x) ==
    /\ i \in 1..Len(centers)
    /\ \A j \in 1..Len(centers) : Abs(x - centers[i]) <= Abs(x - centers[j])

C24_NearestCell ==
    PageDone /\ call.ret[1] # <<>> =>
        /\ Len(call.cells) = Len(call.ret[1])
        /\ \A k \in 1..Len(call.ret[1]) :
              LET cx == x_center(call.ret[1][k].bbox)
                  cy == y_center(call.ret[1][k].bbox)
                  grid == call.grid[1]
              IN  /\ IsNearest(grid.col_centers, call.cells[k].col_i, cx)
                  /\ IsNearest(grid.row_centers, call.cells[k].row_i, cy)
                  /\ Holds(grid.x_bounds, call.cells[k].col_i, cx)
                  /\ Holds(grid.y_bounds, call.cells[k].row_i, cy)

\* the five codes of the chain: the centers are 222.0 and 384.0, and the
\* fourth code, at 312.0, is given the second column
C24_Witness ==
    /\ PageDone
    /\ call.page = ChainPage(Range(ChainBoxes))
    /\ call.grid[1].col_centers = <<2220, 3840>>
    /\ call.grid[1].x_bounds = <<0, 3030, 6000>>
    /\ [k \in 1..5 |-> call.cells[k].col_i] = <<1, 1, 1, 2, 2>>

\* the spans of the cell an item was read from
CellSpansOf(item) ==
    spans_in_rect(collect_spans(call.page.spans), CellRect(call.grid[1], item.bbox))

\* the anchors printed on the page: each code with its bbox, once
PrintedAnchors ==
    {[code |-> call.page.spans[k].text, bbox |-> call.page.spans[k].bbox] :
        k \in {j \in 1..Len(call.page.spans) : call.page.spans[j].text = Txt_code}}

\* C16: extract_items_from_page returns for every page: the empty list when
\* the page has no code anchor, otherwise one CatalogItem for each anchor, an
\* anchor printed twice at one place counted once; an item whose cell holds no
\* author-like span has author '', one whose cell holds no small span has
\* small_description '', one whose cell holds nothing but its own code has
\* dimension ''.
C16_Total ==
    PageDone =>
        LET items == call.ret[1]
        IN  /\ PrintedAnchors = {} => items = <<>>
            /\ Len(items) = Cardinality(PrintedAnchors)
            /\ {[code |-> items[k].code, bbox |-> items[k].bbox] : k \in 1..Len(items)}
                  = PrintedAnchors
            /\ \A k \in 1..Len(items) :
                  LET cell_sp == CellSpansOf(items[k])
                  IN  /\ (\A i \in 1..Len(cell_sp) : ~looks_like_author(strip(cell_sp[i].text)))
                            => items[k].author = <<>>
                      /\ (\A i \in 1..Len(cell_sp) : cell_sp[i].size > SmallSize)
                            => items[k].small_description = <<>>
                      /\ (\A i \in 1..Len(cell_sp) : cell_sp[i].bbox = items[k].bbox)
                            => items[k].dimension = <<>>

\* a page of two anchors, the first printed twice with an author, a dimension
\* and two description lines, the second alone in its cell
C16_Witness ==
    /\ PageDone
    /\ Len(call.page.spans) = 7
    /\ Len(call.ret[1]) = 2
    /\ call.ret[1][1].author = <<"B", "U", "C", "K">>
    /\ call.ret[1][2].author = <<>>
    /\ call.ret[1][2].dimension = <<>>
    /\ call.ret[1][2].small_description = <<>>
    /\ CellSpansOf(call.ret[1][2]) = <<CodeSpan(call.ret[1][2].bbox)>>

\* a page of two title lines and no code
C16_WitnessNoAnchor ==
    /\ PageDone
    /\ call.page.spans = TitleSpans
    /\ call.ret = <<<<>>>>

\* ------------------------------------------------------------------------
\* _extract_item_author and _extract_item_description_english applied to drawn
\* cells.  The code stands at CodeBox.  An author cell holds up to MaxSpans
\* spans, each 'BUCK' or 'CLAR' in one of two sizes or the page number '12',
\* set far above the code, in the window above it, aside of it (the bottom
\* edge above the code's center or 1.0 below it) or under it.  A description
\* cell holds up to MaxSmall spans, the k-th with the k-th letter as its text,
\* each on one of four heights, all small but at most one.
\* ------------------------------------------------------------------------
MaxSpans == 2
MaxSmall == 5

CodeBox == [x0 |-> 1200, y0 |-> 3000, x1 |-> 1440, y1 |-> 3120]

AuthorPlaces ==
    {[x0 |-> 1200, y0 |-> 1500, x1 |-> 1400, y1 |-> 1600],
     [x0 |-> 1200, y0 |-> 2000, x1 |-> 1400, y1 |-> 2100],
     [x0 |-> 1200, y0 |-> 2800, x1 |-> 1400, y1 |-> 2900],
     [x0 |-> 2000, y0 |-> 2900, x1 |-> 2200, y1 |-> 3000],
     [x0 |-> 2000, y0 |-> 2970, x1 |-> 2200, y1 |-> 3070],
     [x0 |-> 1200, y0 |-> 3150, x1 |-> 1400, y1 |-> 3250]}

AuthorSpans ==
    [text : {<<"B", "U", "C", "K">>, <<"C", "L", "A", "R">>}, size : {90, 120}, bbox : AuthorPlaces]
        \cup [text : {<<"1", "2">>}, size : {120},
              bbox : {b \in AuthorPlaces : b.y0 \in {1500, 2900}}]

DescYs == {1000, 1050, 1400, 1450}

\* n spans on the heights ys, the one numbered large (if any) in size 9.0
DescCell(n, ys, large) ==
    [k \in 1..n |->
        Span(<<LowerChars[k]>>, IF k = large THEN 90 ELSE 60,
             1300 - 10 * k, ys[k], 1500 - 10 * k, ys[k] + 60)]

CellInit ==
    /\ \/ \E cell_spans \in SeqsUpTo(AuthorSpans, MaxSpans) :
             call = [fn |-> "_extract_item_author", cell_spans |-> cell_spans,
                     code_bbox |-> CodeBox, ret |-> <<>>]
       \/ \E n \in 0..MaxSmall :
             \E ys \in [1..n -> DescYs], large \in 0..n :
                call = [fn |-> "_extract_item_description_english",
                        cell_spans |-> DescCell(n, ys, large),
                        code_bbox |-> CodeBox, ret |-> <<>>]
    /\ NoMatchState
    /\ NoDbState

CallAuthor ==
    /\ call.fn = "_extract_item_author"
    /\ call.ret = <<>>
    /\ call' = [call EXCEPT !.ret = <<extract_item_author(call.cell_spans, call.code_bbox)>>]
    /\ UNCHANGED <<matchVars, dbVars>>

CallDescription ==
    /\ call.fn = "_extract_item_description_english"
    /\ call.ret = <<>>
    /\ call' = [call EXCEPT !.ret = <<extract_item_description_english(call.cell_spans)>>]
    /\ UNCHANGED <<matchVars, dbVars>>

CellNext == CallAuthor \/ CallDescription

SpecCell == CellInit /\ [][CellNext]_vars

AuthorDone == call.fn = "_extract_item_author" /\ call.ret # <<>>

DescriptionDone == call.fn = "_extract_item_description_english" /\ call.ret # <<>>

\* ------------------------------------------------------------------------
\* Properties of _extract_item_author
\* ------------------------------------------------------------------------
\* no span of the cell is a candidate of the window above the code
WindowEmpty ==
    \A i \in 1..Len(call.cell_spans) : ~InWindow(call.cell_spans[i], call.code_bbox)

\* the noise-free spans whose bottom edge is at most slack below the code's center
AboveCenter(slack) ==
    {i \in 1..Len(call.cell_spans) :
        /\ call.cell_spans[i].bbox.y1 <= y_center(call.code_bbox) + slack
        /\ looks_like_author(strip(call.cell_spans[i].text))}

\* C19 (as claimed): the fallback returns, among the noise-free spans above the
\* anchor's center, one of the largest font size, and among those of the
\* largest size one that is highest on the page.
C19_FallbackHighest ==
    (AuthorDone /\ WindowEmpty) =>
        IF AboveCenter(0) = {} THEN call.ret = <<<<>>>>
        ELSE \E i \in AboveCenter(0) :
                /\ call.ret = <<strip(call.cell_spans[i].text)>>
                /\ \A j \in AboveCenter(0) :
                      \/ call.cell_spans[j].size < call.cell_spans[i].size
                      \/ /\ call.cell_spans[j].size = call.cell_spans[i].size
                         /\ call.cell_spans[j].bbox.y0 >= call.cell_spans[i].bbox.y0

\* C19 (amended): the fallback returns, among the noise-free spans whose bottom
\* edge is not more than 2.0 below the anchor's center, the one of the largest
\* font size, among those of the largest size the one lowest on the page
\* (largest y0), and among those the first of the cell; '' when there is none.
C19_FallbackLowest ==
    (AuthorDone /\ WindowEmpty) =>
        IF AboveCenter(20) = {} THEN call.ret = <<<<>>>>
        ELSE \E i \in AboveCenter(20) :
                /\ call.ret = <<strip(call.cell_spans[i].text)>>
                /\ \A j \in AboveCenter(20) :
                      \/ call.cell_spans[j].size < call.cell_spans[i].size
                      \/ /\ call.cell_spans[j].size = call.cell_spans[i].size
                         /\ \/ call.cell_spans[j].bbox.y0 < call.cell_spans[i].bbox.y0
                            \/ /\ call.cell_spans[j].bbox.y0 = call.cell_spans[i].bbox.y0
                               /\ i <= j

\* 'BUCK' at y 150.0 and 'CLAR' at y 200.0, both far above the code and of one
\* size: the lower one, 'CLAR', is returned
C19_Witness ==
    /\ AuthorDone /\ WindowEmpty
    /\ call.cell_spans = <<Span(<<"B", "U", "C", "K">>, 90, 1200, 1500, 1400, 1600),
                           Span(<<"C", "L", "A", "R">>, 90, 1200, 2000, 1400, 2100)>>
    /\ call.ret = <<<<"C", "L", "A", "R">>>>

\* ------------------------------------------------------------------------
\* Properties of _extract_item_description_english
\* ------------------------------------------------------------------------
\* the candidates, top to bottom
Candidates == SmallSpans(call.cell_spans)

\* whether candidate i + 1 follows candidate i within the line gap
Follows(i) == Abs(Candidates[i + 1].bbox.y0 - Candidates[i].bbox.y0) <= LineGap

\* the runs of the candidates: [from, to] with every candidate but the first
\* following the one before it, the runs as long as they can be
RunsOfCandidates ==
    {r \in (1..Len(Candidates)) \X (1..Len(Candidates)) :
        /\ r[1] <= r[2]
        /\ \A i \in r[1]..(r[2] - 1) : Follows(i)
        /\ r[1] = 1 \/ ~Follows(r[1] - 1)
        /\ r[2] = Len(Candidates) \/ ~Follows(r[2])}

\* C20: the result is '' without candidates; when two consecutive candidates
\* are within 10 units it is the 2nd line of a run of at least 2 lines;
\* otherwise it is the line of a single-line run.
C20_SecondLineOfRun ==
    DescriptionDone =>
        IF Candidates = <<>> THEN call.ret = <<<<>>>>
        ELSE IF \E i \in 1..(Len(Candidates) - 1) : Follows(i)
        THEN \E r \in RunsOfCandidates :
                r[1] < r[2] /\ call.ret = <<Candidates[r[1] + 1].text>>
        ELSE \E r \in RunsOfCandidates : call.ret = <<Candidates[r[1]].text>>

\* ------------------------------------------------------------------------
\* match_word_items_to_excel_catalog on a catalog that is the concatenation of
\* two frames, each with its own RangeIndex, so that index labels repeat
\* ------------------------------------------------------------------------
ConcatRows == {Row_A1, Row_A3, Row_B2, Row_D1}

ConcatBatches ==
    {<<Item_Len60>>, <<Item_AcmeLen60, Item_Len60>>, <<Item_Len60, Item_AcmeLen60>>,
     <<Item_Height>>, <<Item_Acme, Item_Len60>>}

\* catalog_df_to_record_list(pd.concat([first, second])): iterrows yields the
\* labels of first, then those of second
concat_record_list(first, second) ==
    catalog_df_to_record_list(first) \o catalog_df_to_record_list(second)

ConcatInit ==
    /\ call = [fn |-> "match_word_items_to_excel_catalog"]
    /\ \E first \in SeqsUpTo(ConcatRows, MaxRows) \ {<<>>}, second \in SeqsUpTo(ConcatRows, 1) \ {<<>>} :
          catalog_records = concat_record_list(first, second)
    /\ word_items \in ConcatBatches
    /\ top_k \in 1..MaxTopK
    /\ item_no = 0
    /\ dim_cache = <<>>
    /\ candidates = <<>>
    /\ results = <<>>
    /\ NoDbState

SpecConcat == ConcatInit /\ [][MatchNext]_vars

\* the result the call gives for an item that is alone in the batch
AloneResult(item) == ResultOf(item, Survivors(item, catalog_records, <<>>).filtered, top_k)

\* C29: the result for an item is the one it gets alone, whatever items come
\* before it in the batch, and the entry of dim_cache the filter uses for a row
\* is the parse of that row's own dimensions text, also when two rows carry the
\* same index.
C29_OwnDimensions ==
    /\ \A k \in 1..Len(results) : results[k] = AloneResult(word_items[k])
    /\ \A rec \in Rows :
          rec[1] \in DOMAIN dim_cache => dim_cache[rec[1]] = ParsedDims(rec[2].dimensions)

\* ------------------------------------------------------------------------
\* The dedup loop of _extract_item_code_from_page applied to detected anchors
\* whose coordinates are in hundredths of a point: up to MaxDetected anchors,
\* each one of two codes in one of DetectedBoxes.  No coordinate ends in 5, so
\* that round(_, 1) is the nearest tenth whatever the float holding it.
\* ------------------------------------------------------------------------
MaxDetected == 3

Hundredths == 10

DetectedCodes == {<<"1", "2", "-", "3", "4", "5", "-", "6", "7">>, <<"1", "2", "-", "3", "4", "5", "-", "6", "8">>}

\* a box, the same box 0.04 to the right, 0.06 to the right, 0.04 taller, and
\* the box one row lower
DetectedBoxes ==
    {[x0 |-> 1000, y0 |-> 5000, x1 |-> 5500, y1 |-> 6000],
     [x0 |-> 1004, y0 |-> 5000, x1 |-> 5504, y1 |-> 6000],
     [x0 |-> 1006, y0 |-> 5000, x1 |-> 5506, y1 |-> 6000],
     [x0 |-> 1000, y0 |-> 5000, x1 |-> 5500, y1 |-> 6004],
     [x0 |-> 1000, y0 |-> 7000, x1 |-> 5500, y1 |-> 8000]}

DedupInit ==
    /\ call \in [fn : {"dedup"},
                 anchors : SeqsUpTo([code : DetectedCodes, bbox : DetectedBoxes], MaxDetected),
                 ret : {<<>>}]
    /\ NoMatchState
    /\ NoDbState

CallDedup ==
    /\ call.fn = "dedup"
    /\ call.ret = <<>>
    /\ call' = [call EXCEPT !.ret = <<uniq(call.anchors, Hundredths)>>]
    /\ UNCHANGED <<matchVars, dbVars>>

DedupNext == CallDedup

SpecDedup == DedupInit /\ [][DedupNext]_vars

DedupDone == call.fn = "dedup" /\ call.ret # <<>>

\* the tenth nearest to a coordinate given in hundredths
NearestTenth(v) == CHOOSE t \in (v - 9)..(v + 9) : t % 10 = 0 /\ 2 * Abs(v - t) < 10

CodeAndPlace(a) ==
    <<a.code, NearestTenth(a.bbox.x0), NearestTenth(a.bbox.y0),
      NearestTenth(a.bbox.x1), NearestTenth(a.bbox.y1)>>

\* C26: no two anchors returned have the same code and the same bbox rounded
\* to 0.1 on all four coordinates; every detected (code, rounded bbox) pair is
\* represented by exactly one returned anchor, which is one of those detected;
\* so the same code at places that round differently is kept at each of them.
C26_OnePerCodeAndPlace ==
    DedupDone =>
        LET ret == call.ret[1]
        IN  /\ \A i, j \in DOMAIN ret : i # j => CodeAndPlace(ret[i]) # CodeAndPlace(ret[j])
            /\ \A a \in Range(call.anchors) :
                   Cardinality({i \in DOMAIN ret : CodeAndPlace(ret[i]) = CodeAndPlace(a)}) = 1
            /\ Range(ret) \subseteq Range(call.anchors)

\* one code detected at x0 = 10.00, at 10.06 and at 10.04: the third is merged
\* with the first, the second, 0.02 from the third, is kept
C26_Witness ==
    /\ DedupDone
    /\ Len(call.anchors) = 3
    /\ \A i \in 1..3 : call.anchors[i].code = call.anchors[1].code
    /\ [i \in 1..3 |-> call.anchors[i].bbox.x0] = <<1000, 1006, 1004>>
    /\ \A i \in 1..3 : call.anchors[i].bbox.y1 = 6000
    /\ call.ret[1] = <<call.anchors[3], call.anchors[2]>>

\* one code detected in two rows: both are kept
C26_WitnessTwoPlaces ==
    /\ DedupDone
    /\ Len(call.anchors) = 2
    /\ call.anchors[1].code = call.anchors[2].code
    /\ call.anchors[1].bbox.y0 = 5000
    /\ call.anchors[2].bbox.y0 = 7000
    /\ call.ret[1] = call.anchors

\* ------------------------------------------------------------------------
\* _cluster_positions applied to drawn values: up to MaxVals of six positions,
\* all multiples of 6.0 so that the mean of any cluster is exact, in any order
\* and with repeats, under the row tolerance 25.0 and the column tolerance 60.0
\* ------------------------------------------------------------------------
MaxVals == 4

ClusterValues == {1200, 1440, 1680, 2400, 2460, 3600}

ClusterInit ==
    /\ call \in [fn : {"_cluster_positions"}, vals : SeqsUpTo(ClusterValues, MaxVals),
                 tol : {GridTolerance.row, GridTolerance.col}, ret : {<<>>}]
    /\ NoMatchState
    /\ NoDbState

CallCluster ==
    /\ call.fn = "_cluster_positions"
    /\ call.ret = <<>>
    /\ call' = [call EXCEPT !.ret = <<cluster_positions(call.vals, call.tol)>>]
    /\ UNCHANGED <<matchVars, dbVars>>

ClusterNext == CallCluster

SpecCluster == ClusterInit /\ [][ClusterNext]_vars

ClusterDone == call.fn = "_cluster_positions" /\ call.ret # <<>>

\* the values in sorted order, and the places where two adjacent ones differ
\* by more than the tolerance
SortedVals == Ascending(call.vals)

Cuts == {i \in 1..(Len(call.vals) - 1) : SortedVals[i + 1] - SortedVals[i] > call.tol}

\* the k-th run of sorted values between two cuts
RunOf(k) ==
    LET first == IF k = 1 THEN 1
                 ELSE 1 + CHOOSE c \in Cuts : Cardinality({d \in Cuts : d < c}) = k - 2
        last == IF k = Cardinality(Cuts) + 1 THEN Len(call.vals)
                ELSE CHOOSE c \in Cuts : Cardinality({d \in Cuts : d < c}) = k - 1
    IN  SubSeq(SortedVals, first, last)

\* C25: two values adjacent in sorted order fall in one cluster exactly when
\* they differ by at most the tolerance, so the clusters are the runs between
\* the cuts; each center returned is the mean of its run, and the centers are
\* strictly increasing, adjacent ones more than the tolerance apart.  No value
\* gives no center.
C25_SingleLinkage ==
    ClusterDone =>
        LET centers == call.ret[1]
        IN  IF call.vals = <<>> THEN centers = <<>>
            ELSE /\ Len(centers) = Cardinality(Cuts) + 1
                 /\ \A k \in 1..Len(centers) : centers[k] * Len(RunOf(k)) = SumOf(RunOf(k))
                 /\ \A k \in 1..(Len(centers) - 1) : centers[k + 1] - centers[k] > call.tol

\* 168.0, 120.0 and 144.0 under the tolerance 25.0: one cluster 48.0 wide
C25_Witness ==
    /\ ClusterDone
    /\ call.vals = <<1680, 1200, 1440>>
    /\ call.tol = 250
    /\ call.ret = <<<<1440>>>>

\* ------------------------------------------------------------------------
\* _extract_item_code_from_page applied to one line that spells 12-345-67: the
\* nine characters cut into up to MaxPieces words, each hyphen written as "-"
\* or as a variant, each cut closed (gap 0) or open, the open gaps 2.0 and
\* 10.0 wide in turn.
\* ------------------------------------------------------------------------
MaxPieces == 5

\* the widths of the open gaps, from left to right
OpenGaps == <<20, 100>>

CodeChars(h1, h2) == <<"1", "2", h1, "3", "4", "5", h2, "6", "7">>

\* the words of the line: cs holds the cut positions in increasing order, open[k]
\* tells whether the k-th cut is an open gap
SplitLine(chars, cs, open) ==
    LET from(k) == IF k = 1 THEN 1 ELSE cs[k - 1] + 1
        to(k) == IF k = Len(cs) + 1 THEN Len(chars) ELSE cs[k]
        gap(j) == IF open[j] THEN OpenGaps[((j - 1) % Len(OpenGaps)) + 1] ELSE 0
        x0(k) == PageGeometry.left + PageGeometry.char_width * (from(k) - 1)
                 + SumOf([j \in 1..(k - 1) |-> gap(j)])
    IN  [k \in 1..(Len(cs) + 1) |->
            [x0 |-> x0(k), y0 |-> PageGeometry.top,
             x1 |-> x0(k) + PageGeometry.char_width * (to(k) - from(k) + 1),
             y1 |-> PageGeometry.top + PageGeometry.height,
             txt |-> Slice(chars, from(k), to(k) + 1), block_no |-> 0, line_no |-> 0]]

SplitInit ==
    /\ \E cuts \in SUBSET (1..8) :
          /\ Cardinality(cuts) < MaxPieces
          /\ \E open \in [1..Cardinality(cuts) -> BOOLEAN],
                h1 \in HyphenVariants \cup {"-"} :
                \E h2 \in {"-", h1} :
                    LET IsCut(i) == i \in cuts
                    IN  call = [fn |-> "_extract_item_code_from_page",
                                words |-> SplitLine(CodeChars(h1, h2),
                                                    SelectSeq([i \in 1..8 |-> i], IsCut), open),
                                ret |-> <<>>]
    /\ NoMatchState
    /\ NoDbState

SpecSplit == SplitInit /\ [][AnchorNext]_vars

\* the line of call.words, read without its gaps, is 12-345-67 written with any
\* of the hyphens
SpellsCode ==
    /\ \A i \in 1..Len(call.words) : call.words[i].block_no = 0 /\ call.words[i].line_no = 0
    /\ \E h1 \in HyphenVariants \cup {"-"}, h2 \in HyphenVariants \cup {"-"} :
          Flatten([i \in 1..Len(call.words) |-> call.words[i].txt]) = CodeChars(h1, h2)

\* an open gap (wider than 1.5) between two digits of one digit group
GapInsideDigits ==
    \E i \in 2..Len(call.words) :
        /\ call.words[i].x0 - call.words[i - 1].x1 > GapThreshold
        /\ call.words[i].txt[1] \in Digits
        /\ call.words[i - 1].txt[Len(call.words[i - 1].txt)] \in Digits

CodeDetected == \E k \in 1..Len(call.ret[1]) : call.ret[1][k].code = Txt_code

\* C12 (as claimed): a line that spells 12-345-67, however its characters are
\* cut into words, with any gaps and any hyphen variant, yields an anchor with
\* code '12-345-67'.
C12_AnySplitDetected ==
    AnchorDone /\ SpellsCode => CodeDetected

\* C12 (amended): a line that spells 12-345-67 with any hyphen variant yields
\* an anchor with code '12-345-67' exactly when no gap wider than 1.5 separates
\* two digits of one digit group; gaps next to the hyphens never matter, so
\* '12', '-', '345', '-', '67' set 2 and 10 units apart is detected.
C12_SplitDetected ==
    AnchorDone /\ SpellsCode => (CodeDetected <=> ~GapInsideDigits)

\* the words '12', '-', '345', '-', '67' with open gaps, the first hyphen a
\* variant, and the code detected
C12_Witness ==
    /\ AnchorDone
    /\ SpellsCode
    /\ Len(call.words) = 5
    /\ call.words[2].txt = <<"u2212">>
    /\ call.words[4].txt = <<"-">>
    /\ \A i \in 2..5 : call.words[i].x0 - call.words[i - 1].x1 \in Range(OpenGaps)
    /\ CodeDetected


\* ------------------------------------------------------------------------
\* CatalogDB.upsert_asset called by threads, each on its own connection.  A
\* connection reads the committed tables; its INSERT opens a transaction that
\* holds the file's write lock until commit, and another connection's INSERT
\* waits for the lock.
\* ------------------------------------------------------------------------
MaxUpserts == 2

Threads == {1, 2}

\* the dedup key (pdf_path, page, asset_path)
AssetKeys ==
    {[pdf_path |-> "catalog.pdf", page |-> 1, asset_path |-> "p0001/a.png"],
     [pdf_path |-> "catalog.pdf", page |-> 2, asset_path |-> "p0002/b.png"]}

AssetKey(a) == [pdf_path |-> a.pdf_path, page |-> a.page, asset_path |-> a.asset_path]

\* SELECT id FROM assets WHERE pdf_path=? AND page=? AND asset_path=?
AssetIds(assets, key) == {i \in DOMAIN assets : AssetKey(assets[i]) = key}

\* a thread that is to make the calls of todo, one after the other
Caller(todo) == [pc |-> "select", todo |-> todo, done |-> <<>>, ret |-> <<>>, lastrowid |-> 0]

\* the call returns id: the thread goes on to its next call
Return(c, id) ==
    [c EXCEPT !.pc = IF Len(c.todo) > 1 THEN "select" ELSE "return",
              !.todo = Tail(c.todo), !.done = Append(c.done, Head(c.todo)),
              !.ret = Append(c.ret, id)]

AssetsInit ==
    /\ call = [fn |-> "upsert_asset"]
    /\ db = EmptyDb
    /\ conns \in [Threads -> {Caller(todo) : todo \in SeqsUpTo(AssetKeys, MaxUpserts) \ {<<>>}}]
    /\ NoMatchState

\* the SELECT and `if row: return int(row["id"])`; fetchone without ORDER BY
\* gives any of the rows that match
upsert_asset_select(t) ==
    /\ conns[t].pc = "select"
    /\ LET ids == AssetIds(db.assets, Head(conns[t].todo))
       IN  IF ids # {}
           THEN \E id \in ids : conns' = [conns EXCEPT ![t] = Return(@, id)]
           ELSE conns' = [conns EXCEPT ![t].pc = "insert"]
    /\ UNCHANGED <<db, call, matchVars>>

\* the INSERT: the connection takes the write lock; its row is not committed yet
upsert_asset_insert(t) ==
    /\ conns[t].pc = "insert"
    /\ db.writer = 0
    /\ db' = [db EXCEPT !.writer = t]
    /\ conns' = [conns EXCEPT ![t].pc = "commit", ![t].lastrowid = Len(db.assets) + 1]
    /\ UNCHANGED <<call, matchVars>>

\* conn.commit() and `return int(cur.lastrowid)`
upsert_asset_commit(t) ==
    /\ conns[t].pc = "commit"
    /\ db' = [db EXCEPT !.assets = Append(@, Head(conns[t].todo) @@ [source |-> "extract"]),
                        !.writer = 0]
    /\ conns' = [conns EXCEPT ![t] = Return(@, conns[t].lastrowid)]
    /\ UNCHANGED <<call, matchVars>>

AssetsNext ==
    \E t \in Threads :
        \/ upsert_asset_select(t)
        \/ upsert_asset_insert(t)
        \/ upsert_asset_commit(t)

SpecAssets == AssetsInit /\ [][AssetsNext]_vars

\* C28: whatever the interleaving of the threads' calls, the assets table never
\* holds two rows with one key, and all the calls made with one key return the
\* same asset id.
C28_OneRowPerKey ==
    call.fn = "upsert_asset" =>
        /\ \A i, j \in DOMAIN db.assets :
               AssetKey(db.assets[i]) = AssetKey(db.assets[j]) => i = j
        /\ \A t, u \in Threads : \A i \in DOMAIN conns[t].ret, j \in DOMAIN conns[u].ret :
               conns[t].done[i] = conns[u].done[j] => conns[t].ret[i] = conns[u].ret[j]

\* ------------------------------------------------------------------------
\* item_asset_links: link_asset_to_item and set_primary_asset_for_item, called
\* one after the other on a file that holds two items and two assets.  An id
\* that names no row fails the FOREIGN KEY and the call raises.
\* ------------------------------------------------------------------------
ItemRow(code, page, fields, validated) ==
    [code |-> code, page |-> page, fields |-> fields, validated |-> validated]

AssetRow(pdf_path, page, asset_path, source) ==
    [pdf_path |-> pdf_path, page |-> page, asset_path |-> asset_path, source |-> source]

LinkRow(item_id, asset_id, match_method, verified, is_primary) ==
    [item_id |-> item_id, asset_id |-> asset_id, match_method |-> match_method,
     verified |-> verified, is_primary |-> is_primary]

Flag(b) == IF b THEN 1 ELSE 0

\* INSERT OR IGNORE INTO item_asset_links: idx_item_asset_unique ignores a
\* second row for one (item_id, asset_id)
InsertOrIgnore(links, row) ==
    IF \E l \in links : l.item_id = row.item_id /\ l.asset_id = row.asset_id
    THEN links ELSE links \cup {row}

link_asset_to_item(links, item_id, asset_id, match_method, verified, is_primary) ==
    InsertOrIgnore(links, LinkRow(item_id, asset_id, match_method, Flag(verified), Flag(is_primary)))

\* UPDATE item_asset_links SET is_primary=value WHERE Where(l)
SetPrimary(links, Where, value) ==
    {IF Where[l] THEN [l EXCEPT !.is_primary = value] ELSE l : l \in links}

\* variant: the UPDATE that clears the item's flags is left out
set_primary_asset_for_item_NoClear(links, item_id, asset_id) ==
    LET ensured == InsertOrIgnore(links, LinkRow(item_id, asset_id, "manual", 1, 0))
    IN  SetPrimary(ensured, [l \in ensured |-> l.item_id = item_id /\ l.asset_id = asset_id], 1)

set_primary_asset_for_item(links, item_id, asset_id) ==
    LET ensured == InsertOrIgnore(links, LinkRow(item_id, asset_id, "manual", 1, 0))
        cleared == SetPrimary(ensured, [l \in ensured |-> l.item_id = item_id], 0)
    IN  SetPrimary(cleared, [l \in cleared |-> l.item_id = item_id /\ l.asset_id = asset_id], 1)

\* ids the callers pass: 3 names no asset
LinkItemIds == {1, 2}

LinkAssetIds == {1, 2, 3}

ForeignKeys(item_id, asset_id) == item_id \in DOMAIN db.items /\ asset_id \in DOMAIN db.assets

LinksInit ==
    /\ call = [fn |-> "connect"]
    /\ db = [EmptyDb EXCEPT
                !.items = <<ItemRow("10-000-01", 1, "pdf", FALSE), ItemRow("10-000-02", 1, "pdf", FALSE)>>,
                !.assets = <<AssetRow("catalog.pdf", 1, "p0001/a.png", "extract"),
                             AssetRow("catalog.pdf", 1, "p0001/b.png", "extract")>>]
    /\ conns = <<>>
    /\ NoMatchState

\* the call as made, the links before it, and whether it raised
Called(fn, item_id, asset_id, ok) ==
    [fn |-> fn, item_id |-> item_id, asset_id |-> asset_id, before |-> db.links, raised |-> ~ok]

CallLink ==
    \E item_id \in LinkItemIds, asset_id \in LinkAssetIds, is_primary \in BOOLEAN :
        /\ call' = Called("link_asset_to_item", item_id, asset_id, ForeignKeys(item_id, asset_id))
        /\ db' = IF ForeignKeys(item_id, asset_id)
                 THEN [db EXCEPT !.links = link_asset_to_item(@, item_id, asset_id, "heuristic", FALSE, is_primary)]
                 ELSE db
        /\ UNCHANGED <<conns, matchVars>>

CallSetPrimary ==
    \E item_id \in LinkItemIds, asset_id \in LinkAssetIds :
        /\ call' = Called("set_primary_asset_for_item", item_id, asset_id, ForeignKeys(item_id, asset_id))
        /\ db' = IF ForeignKeys(item_id, asset_id)
                 THEN [db EXCEPT !.links = set_primary_asset_for_item(@, item_id, asset_id)]
                 ELSE db
        /\ UNCHANGED <<conns, matchVars>>

LinksNext == CallLink \/ CallSetPrimary

SpecLinks == LinksInit /\ [][LinksNext]_vars

SetPrimaryDone == call.fn = "set_primary_asset_for_item" /\ ~call.raised

LinksOf(links, item_id) == {l \in links : l.item_id = item_id}

Primaries(links, item_id) == {l \in LinksOf(links, item_id) : l.is_primary = 1}

\* C27: after set_primary_asset_for_item(item, asset) exactly one link of the
\* item has is_primary = 1, the link to that asset, whatever links and flags
\* there were before, several primaries included; the links of every other
\* item are as they were.
C27_SinglePrimary ==
    SetPrimaryDone =>
        /\ \E l \in db.links : /\ l.asset_id = call.asset_id
                               /\ Primaries(db.links, call.item_id) = {l}
        /\ \A other \in LinkItemIds \ {call.item_id} :
               LinksOf(db.links, other) = LinksOf(call.before, other)

\* item 1 had both its links primary, made by link_asset_to_item(is_primary=True)
C27_Witness ==
    /\ SetPrimaryDone
    /\ call.item_id = 1
    /\ Cardinality(Primaries(call.before, 1)) = 2
    /\ \A l \in LinksOf(call.before, 1) : l.match_method = "heuristic"
    /\ Primaries(call.before, 2) # {}

\* the link was missing: it is created, and the primary there was is cleared
C27_WitnessCreated ==
    /\ SetPrimaryDone
    /\ call.item_id = 1
    /\ call.asset_id = 2
    /\ {l.asset_id : l \in Primaries(call.before, 1)} = {1}
    /\ {l.asset_id : l \in LinksOf(call.before, 1)} = {1}
    /\ LinkRow(1, 2, "manual", 1, 1) \in db.links

\* ------------------------------------------------------------------------
\* build_or_update_db_from_pdf on one connection: a PDF of up to MaxPages pages,
\* each with the items extract_items_from_page found on it, imported into a
\* file that may hold the two codes already: plain, validated, with an image
\* taken from Excel, or with a legacy image.  The import ends when it returns
\* or when an exception leaves it.
\* ------------------------------------------------------------------------
MaxPages == 2

ImportCodes == <<"10-000-01", "10-000-02">>

\* an extracted item: its code, the text of its cell, and whether an image is
\* found near it on the page
Found(code, text, image) == [code |-> code, text |-> text, image |-> image]

PagePool ==
    {<<>>,
     <<Found(ImportCodes[1], "a", TRUE)>>,
     <<Found(ImportCodes[1], "a", TRUE), Found(ImportCodes[1], "a2", TRUE)>>,
     <<Found(ImportCodes[2], "b", FALSE), Found(ImportCodes[1], "a", TRUE)>>,
     <<Found(ImportCodes[2], "b", FALSE)>>}

\* the file with one more item of the given kind
WithItem(d, code, kind) ==
    LET id == Len(d.items) + 1
        row == ItemRow(code, 9, "old", kind = "validated")
        added == [d EXCEPT !.items = Append(@, row)]
    IN  IF kind = "absent" THEN d
        ELSE IF kind = "excel"
        THEN [added EXCEPT !.assets = Append(@, AssetRow("excel", 0, code, "excel")),
                           !.links = @ \cup {LinkRow(id, Len(d.assets) + 1, "excel", 1, 1)}]
        ELSE IF kind = "legacy"
        THEN [added EXCEPT !.item_images = Append(@, [item_id |-> id, image_path |-> "old.png"])]
        ELSE added

StoredFiles ==
    {WithItem(WithItem(EmptyDb, ImportCodes[1], k1), ImportCodes[2], k2) :
        k1 \in {"absent", "plain", "validated", "excel", "legacy"},
        k2 \in {"absent", "plain", "validated"}}

\* the row of items with the code, its id or 0
ItemId(d, code) ==
    IF \E id \in DOMAIN d.items : d.items[id].code = code
    THEN CHOOSE id \in DOMAIN d.items : d.items[id].code = code
    ELSE 0

\* None when no row has the code.  For a row it builds CatalogItem(..., shape=,
\* blade_tip=, surface_treatment=, material=, ...), and the dataclass of
\* state.py has none of the four fields: TypeError
get_item_by_code(d, code) ==
    IF ItemId(d, code) = 0 THEN [raised |-> FALSE, item |-> 0]
    ELSE [raised |-> TRUE, item |-> 0]

\* SELECT image_path FROM item_images WHERE item_id=? ORDER BY id
list_images(d, item_id) ==
    LET Mine(r) == r.item_id = item_id
        rows == SelectSeq(d.item_images, Mine)
    IN  [k \in DOMAIN rows |-> rows[k].image_path]

\* the UPDATE or INSERT of the item, then item_images replaced by image_paths
upsert_by_code(d, code, page, fields, validated, image_paths) ==
    LET old == ItemId(d, code)
        item_id == IF old # 0 THEN old ELSE Len(d.items) + 1
        row == ItemRow(code, page, fields, validated)
        Others(r) == r.item_id # item_id
    IN  [d EXCEPT !.items = IF old # 0 THEN [@ EXCEPT ![old] = row] ELSE Append(@, row),
                  !.item_images = SelectSeq(@, Others)
                      \o [k \in DOMAIN image_paths |-> [item_id |-> item_id, image_path |-> image_paths[k]]]]

\* upsert_asset on the import's connection, alone on the file
UpsertAsset(d, key, source) ==
    IF AssetIds(d.assets, key) # {} THEN d
    ELSE [d EXCEPT !.assets = Append(@, AssetRow(key.pdf_path, key.page, key.asset_path, source))]

\* lines 313-345: the nearest image saved as an asset and linked to the item
LinkNearest(d, code, page_no) ==
    LET key == [pdf_path |-> "catalog.pdf", page |-> page_no, asset_path |-> code]
        with == UpsertAsset(d, key, "extract")
        asset_id == MinOf(AssetIds(with.assets, key))
    IN  [with EXCEPT !.links = link_asset_to_item(@, ItemId(d, code), asset_id,
                                                  "keyword_nearest", FALSE, FALSE)]

\* the body of `for it in items` when existing is None: validated False, no
\* legacy images, has_any_images False
Upserted(d, it, page_no) ==
    LET written == upsert_by_code(d, it.code, page_no, it.text, FALSE, <<>>)
    IN  IF it.image THEN LinkNearest(written, it.code, page_no) ELSE written

ImportInit ==
    /\ db \in StoredFiles
    /\ \E pages \in SeqsUpTo(PagePool, MaxPages) :
          call = [fn |-> "build_or_update_db_from_pdf", pages |-> pages, i |-> 1, j |-> 1,
                  before |-> db, upserts |-> <<>>, raised |-> FALSE]
    /\ conns = <<>>
    /\ NoMatchState

\* one iteration of `for it in items` on page i.  get_item_by_code raises for
\* every code the file holds, so the two skips and the update of an existing
\* item, which all need existing, are never reached: the exception leaves the
\* loops, and what was committed before stays
ImportItem ==
    /\ call.fn = "build_or_update_db_from_pdf"
    /\ ~call.raised
    /\ call.i <= Len(call.pages)
    /\ call.j <= Len(call.pages[call.i])
    /\ \E it \in {call.pages[call.i][call.j]} :
          IF get_item_by_code(db, it.code).raised
          THEN /\ call' = [call EXCEPT !.raised = TRUE]
               /\ db' = db
          ELSE /\ call' = [call EXCEPT !.j = @ + 1, !.upserts = Append(@, <<it.code, call.i>>)]
               /\ db' = Upserted(db, it, call.i)
    /\ UNCHANGED <<conns, matchVars>>

\* `for i in range(start_idx, end_idx + 1)`: on to the next page
ImportPage ==
    /\ call.fn = "build_or_update_db_from_pdf"
    /\ ~call.raised
    /\ call.i <= Len(call.pages)
    /\ call.j > Len(call.pages[call.i])
    /\ call' = [call EXCEPT !.i = @ + 1, !.j = 1]
    /\ UNCHANGED <<db, conns, matchVars>>

ImportNext == ImportItem \/ ImportPage

SpecImport == ImportInit /\ [][ImportNext]_vars

Importing == call.fn = "build_or_update_db_from_pdf"

\* the import is over: it returned, or it raised
ImportOver == Importing /\ (call.raised \/ call.i > Len(call.pages))

\* the item was validated, or had an image from Excel, when the import began
Protected(item_id) ==
    \/ call.before.items[item_id].validated
    \/ \E l \in LinksOf(call.before.links, item_id) : call.before.assets[l.asset_id].source = "excel"

ProtectedCode(code) ==
    \E id \in DOMAIN call.before.items : call.before.items[id].code = code /\ Protected(id)

\* the row, the legacy images and the asset links of an item
Stored(d, item_id) ==
    [item |-> d.items[item_id], images |-> list_images(d, item_id), links |-> LinksOf(d.links, item_id)]

Untouched ==
    \A id \in DOMAIN call.before.items : Protected(id) => Stored(db, id) = Stored(call.before, id)

\* whether the page holds the code, and how often the import upserted the
\* code for the page
OnPage(code, p) == \E k \in DOMAIN call.pages[p] : call.pages[p][k].code = code

UpsertsFor(code, p) == Cardinality({k \in DOMAIN call.upserts : call.upserts[k] = <<code, p>>})

\* C30: during the import an item that was validated, or had an image from
\* Excel, keeps its fields, its page, its images and its asset links, however
\* many pages hold its code; once the import is over every other code has been
\* upserted once for each page that holds it.
C30_OncePerPage ==
    Importing =>
        /\ Untouched
        /\ ImportOver =>
              \A n \in DOMAIN ImportCodes : \A p \in DOMAIN call.pages :
                  UpsertsFor(ImportCodes[n], p) =
                      (IF ~ProtectedCode(ImportCodes[n]) /\ OnPage(ImportCodes[n], p) THEN 1 ELSE 0)

============================================================================
